---------------------------- MODULE Spec2Model ----------------------------
(***************************************************************************)
(* ET0 estimation engine of the FieldClimate dashboard proxy.              *)
(*                                                                         *)
(* Sources modelled:                                                       *)
(*   src/api/et0-calculator.js   ET0Calculator (FAO-56 chain), and the     *)
(*                               client-side FieldClimateAPI copy          *)
(*   src/api/fieldclimate.js     ET0Calculator copy used by the API route  *)
(*   src/unnamed/part_000        FieldClimateAPI.selectET0CalculationMethod*)
(*   both route files            handler, calculateET0 and its seasonal   *)
(*                               estimate, extractMeteorologicalParameters*)
(*                                                                         *)
(* JavaScript numbers are IEEE doubles.  They are modelled as fixed-point  *)
(* integers with four decimal places (the value x is the integer x*10^4),  *)
(* together with the distinguished value NaN.  Every formula is evaluated  *)
(* in the order the source evaluates it; where a literal or an             *)
(* intermediate value does not fit the fixed-point range the product is    *)
(* regrouped and the place says so.                                        *)
(***************************************************************************)
EXTENDS Integers, Sequences, FiniteSets, TLC

(***************************************************************************)
(* Fixed-point kernel.                                                     *)
(***************************************************************************)
\* Resolution of the fixed-point representation: four decimal places.
S == 10^4

Abs(x) == IF x < 0 THEN -x ELSE x
Sgn(x) == IF x < 0 THEN -1 ELSE 1

\* a*b/S for a, b >= 0, rounded to the nearest unit, without leaving the
\* 32-bit range of TLC integers.
MulNN(a, b) ==
    LET ah == a \div S
        al == a % S
        bh == b \div S
        bl == b % S
    IN  ah * bh * S + ah * bl + al * bh + (al * bl + S \div 2) \div S

\* m*m <= x*S, exactly.
SqLeq(m, x) ==
    LET mh == m \div S
        ml == m % S
        fl == mh * mh * S + 2 * mh * ml + (ml * ml) \div S
    IN  fl < x \/ (fl = x /\ (ml * ml) % S = 0)

FxMul(a, b) == Sgn(a) * Sgn(b) * MulNN(Abs(a), Abs(b))

\* x*n/d for a rational literal n/d (n, d > 0) too small or too long for S.
FxMulQ(x, n, d) ==
    LET ax == Abs(x)
    IN  Sgn(x) * ((ax \div d) * n + ((ax % d) * n) \div d)

RECURSIVE FracDigits(_, _, _)
FracDigits(r, b, k) ==
    IF k = 0 THEN 0
    ELSE LET t == r * 10
         IN  (t \div b) * 10^(k - 1) + FracDigits(t % b, b, k - 1)

RECURSIVE DivNN(_, _)
DivNN(a, b) ==
    IF b > 10^8 THEN DivNN(a \div 10, b \div 10)
    ELSE (a \div b) * S + FracDigits(a % b, b, 4)

\* a/b for b # 0.
FxDiv(a, b) == Sgn(a) * Sgn(b) * DivNN(Abs(a), Abs(b))

RECURSIVE SqrtBisect(_, _, _)
SqrtBisect(x, lo, hi) ==
    IF hi - lo <= 1 THEN lo
    ELSE LET mid == (lo + hi) \div 2
         IN  IF SqLeq(mid, x) THEN SqrtBisect(x, mid, hi)
             ELSE SqrtBisect(x, lo, mid)

\* Math.sqrt for x >= 0 (x < 160000).
FxSqrt(x) == SqrtBisect(x, 0, (IF x < S THEN S ELSE IF x < 400 * S THEN x ELSE 400 * S) + 1)

RECURSIVE ExpSeries(_, _, _, _)
ExpSeries(x, term, k, acc) ==
    IF term = 0 THEN acc
    ELSE ExpSeries(x, (MulNN(term, x) + k \div 2) \div k, k + 1, acc + term)

\* Math.exp: the power series for x >= 0, and 1/exp(-x) for x < 0.
FxExp(x) ==
    IF x >= 0 THEN ExpSeries(x, S, 1, 0)
    ELSE DivNN(S, ExpSeries(-x, S, 1, 0))

RECURSIVE LnBisect(_, _, _)
LnBisect(x, lo, hi) ==
    IF hi - lo <= 1 THEN lo
    ELSE LET mid == (lo + hi) \div 2
         IN  IF FxExp(mid) <= x THEN LnBisect(x, mid, hi)
             ELSE LnBisect(x, lo, mid)

\* Math.log for x > 0, as the inverse of FxExp.
FxLn(x) == LnBisect(x, -10 * S, 13 * S)

\* Math.PI
PI == 31416

\* x brought into [-PI, PI] by whole turns.
RECURSIVE Reduce(_)
Reduce(x) ==
    IF x > PI THEN Reduce(x - 2 * PI)
    ELSE IF x < -PI THEN Reduce(x + 2 * PI)
    ELSE x

RECURSIVE TrigSeries(_, _, _, _)
\* sum of the alternating series whose k-th term is term, the next one being
\* -term * x2 / ((k+1)(k+2))
TrigSeries(x2, term, k, acc) ==
    IF term = 0 THEN acc
    ELSE TrigSeries(x2, -Sgn(term) * ((MulNN(Abs(term), x2) + ((k + 1) * (k + 2)) \div 2)
                                      \div ((k + 1) * (k + 2))),
                    k + 2, acc + term)

FxSin(x) == LET r == Reduce(x) IN TrigSeries(MulNN(Abs(r), Abs(r)), r, 1, 0)
FxCos(x) == LET r == Reduce(x) IN TrigSeries(MulNN(Abs(r), Abs(r)), S, 0, 0)
\* Math.tan.  It never divides by zero: at the double nearest to PI/2 the
\* cosine is not zero and the tangent is a finite number of the order 10^16;
\* where the fixed-point cosine is zero a magnitude of 10^4 stands for it.
FxTan(x) ==
    IF FxCos(x) = 0 THEN Sgn(FxSin(x)) * (10^4 * S)
    ELSE FxDiv(FxSin(x), FxCos(x))

RECURSIVE AcosBisect(_, _, _)
AcosBisect(x, lo, hi) ==
    IF hi - lo <= 1 THEN lo
    ELSE LET mid == (lo + hi) \div 2
         IN  IF FxCos(mid) >= x THEN AcosBisect(x, mid, hi)
             ELSE AcosBisect(x, lo, mid)

\* Math.acos for -1 <= x <= 1, as the inverse of FxCos on [0, PI].
FxAcos(x) == AcosBisect(x, 0, PI + 1)


(***************************************************************************)
(* JavaScript values.  A value is a record whose field t tells its kind:   *)
(* "num" (v holds the fixed-point number), "nan", "null", "undef", or      *)
(* "str" (s holds the string).                                             *)
(***************************************************************************)
Num(x) == [t |-> "num", v |-> x, s |-> ""]
NaN == [t |-> "nan", v |-> 0, s |-> ""]
Null == [t |-> "null", v |-> 0, s |-> ""]
Undefined == [t |-> "undef", v |-> 0, s |-> ""]
Str(str) == [t |-> "str", v |-> 0, s |-> str]

\* A literal n/d of the source as a number.
Lit(n, d) == Num((n * S) \div d)

IsNum(a) == a.t = "num"
\* if (x): null, undefined, NaN and 0 are falsy, every other number is truthy.
Truthy(a) == (a.t = "num" /\ a.v # 0) \/ (a.t = "str" /\ a.s # "")
\* x !== undefined && x !== null
Present(a) == a.t \notin {"null", "undef"}
\* ToNumber: null is 0, undefined is NaN.
ToNumber(a) == IF a.t = "null" THEN Num(0) ELSE IF a.t = "num" THEN a ELSE NaN
\* a || b
OrElse(a, b) == IF Truthy(a) THEN a ELSE b
\* a === undefined ? b : a  (a destructuring default)
Default(a, b) == IF a.t = "undef" THEN b ELSE a

JAdd(a, b) == LET x == ToNumber(a) y == ToNumber(b)
              IN IF IsNum(x) /\ IsNum(y) THEN Num(x.v + y.v) ELSE NaN
JSub(a, b) == LET x == ToNumber(a) y == ToNumber(b)
              IN IF IsNum(x) /\ IsNum(y) THEN Num(x.v - y.v) ELSE NaN
JMul(a, b) == LET x == ToNumber(a) y == ToNumber(b)
              IN IF IsNum(x) /\ IsNum(y) THEN Num(FxMul(x.v, y.v)) ELSE NaN
\* a * (n/d) for a literal n/d
JMulQ(a, n, d) == LET x == ToNumber(a)
                  IN IF IsNum(x) THEN Num(FxMulQ(x.v, n, d)) ELSE NaN
\* a / b; 0/0 is NaN.  (x/0 for x # 0 is an infinity in the source; no input
\* of this model divides a non-zero number by zero.)
JDiv(a, b) == LET x == ToNumber(a) y == ToNumber(b)
              IN IF IsNum(x) /\ IsNum(y) /\ y.v # 0 THEN Num(FxDiv(x.v, y.v)) ELSE NaN
\* Math.sqrt: NaN for a negative argument.
JSqrt(a) == LET x == ToNumber(a)
            IN IF IsNum(x) /\ x.v >= 0 THEN Num(FxSqrt(x.v)) ELSE NaN
JExp(a) == LET x == ToNumber(a) IN IF IsNum(x) THEN Num(FxExp(x.v)) ELSE NaN
JSin(a) == LET x == ToNumber(a) IN IF IsNum(x) THEN Num(FxSin(x.v)) ELSE NaN
JCos(a) == LET x == ToNumber(a) IN IF IsNum(x) THEN Num(FxCos(x.v)) ELSE NaN
JTan(a) == LET x == ToNumber(a) IN IF IsNum(x) THEN Num(FxTan(x.v)) ELSE NaN
JNeg(a) == LET x == ToNumber(a) IN IF IsNum(x) THEN Num(-x.v) ELSE NaN
\* Math.acos: NaN outside [-1, 1].
JAcos(a) == LET x == ToNumber(a)
            IN IF IsNum(x) /\ x.v >= -S /\ x.v <= S THEN Num(FxAcos(x.v)) ELSE NaN
\* Math.pow(a, 2) and Math.pow(a, 4)
JSquare(a) == JMul(a, a)
JFourth(a) == JSquare(JSquare(a))
\* Math.pow(a, e) for a fractional exponent e > 0: NaN for a negative base.
JPow(a, e) ==
    LET x == ToNumber(a)
    IN  IF ~IsNum(x) \/ ~IsNum(e) \/ x.v < 0 THEN NaN
        ELSE IF x.v = 0 THEN Num(0)
        ELSE Num(FxExp(FxMul(FxLn(x.v), e.v)))
\* Math.max and Math.min: NaN if either argument is NaN.
JMax(a, b) == LET x == ToNumber(a) y == ToNumber(b)
              IN IF IsNum(x) /\ IsNum(y) THEN (IF x.v >= y.v THEN x ELSE y) ELSE NaN
JMin(a, b) == LET x == ToNumber(a) y == ToNumber(b)
              IN IF IsNum(x) /\ IsNum(y) THEN (IF x.v <= y.v THEN x ELSE y) ELSE NaN
\* a > b: false when either side is NaN.
JGt(a, b) == LET x == ToNumber(a) y == ToNumber(b)
             IN IsNum(x) /\ IsNum(y) /\ x.v > y.v

\* x.toFixed(k): the decimal numeral of x rounded to k places, kept as the
\* number it denotes; (NaN).toFixed(k) is "NaN".
ToFixed(a, k) ==
    IF IsNum(a)
    THEN LET u == 10^(4 - k)
         IN  Num(Sgn(a.v) * (((Abs(a.v) + u \div 2) \div u) * u))
    ELSE NaN
\* The outcome of a call: a returned value, or an exception.
Ret(x) == [threw |-> FALSE, val |-> x]
Thrown == [threw |-> TRUE, val |-> Undefined]


(***************************************************************************)
(* ET0Calculator: the formulas (src/api/et0-calculator.js; the copy in     *)
(* src/api/fieldclimate.js has the same text except where noted).          *)
(***************************************************************************)

\* 0.6108 * Math.exp((17.27 * T) / (T + 237.3))
SaturationVapourPressure(T) ==
    JMul(Lit(6108, 10000),
         JExp(JDiv(JMul(Lit(1727, 100), T), JAdd(T, Lit(2373, 10)))))

\* (4098 * es) / Math.pow(Tmean + 237.3, 2)
SlopeOfVapourPressureCurve(es, Tmean) ==
    JDiv(JMul(Lit(4098, 1), es), JSquare(JAdd(Tmean, Lit(2373, 10))))

\* calculateExtraterrestrialRadiation(latitude, julianDay)
calculateExtraterrestrialRadiation(latitude, julianDay) ==
    LET \* latitude * (Math.PI / 180), regrouped as (latitude * Math.PI) / 180
        phi == JMulQ(JMul(latitude, Num(PI)), 1, 180)
        \* 2 * Math.PI * julianDay / 365
        turn == JMulQ(JMul(Num(2 * PI), julianDay), 1, 365)
        delta == JMul(Lit(409, 1000), JSin(JSub(turn, Lit(139, 100))))
        dr == JAdd(Lit(1, 1), JMul(Lit(33, 1000), JCos(turn)))
        omega_s == JAcos(JMul(JNeg(JTan(phi)), JTan(delta)))
        Gsc == Lit(820, 10000)
    IN  JMul(JMul(JMul(JDiv(Lit(24 * 60, 1), Num(PI)), Gsc), dr),
             JAdd(JMul(JMul(omega_s, JSin(phi)), JSin(delta)),
                  JMul(JMul(JCos(phi), JCos(delta)), JSin(omega_s))))

\* calculateClearSkyRadiation(latitude, altitude, julianDay)
calculateClearSkyRadiation(latitude, altitude, julianDay) ==
    LET Ra == calculateExtraterrestrialRadiation(latitude, julianDay)
        \* 0.75 + (2e-5 * altitude)
        transmissionFactor == JAdd(Lit(75, 100), JMulQ(altitude, 2, 100000))
    IN  JMul(Ra, transmissionFactor)

\* calculateAtmosphericPressure(altitude)
calculateAtmosphericPressure(altitude) ==
    LET P0 == Lit(1013, 10)
        tempK0 == Lit(293, 1)
        \* (tempK0 - 0.0065 * altitude) / tempK0
        ratio == JDiv(JSub(tempK0, JMulQ(altitude, 65, 10000)), tempK0)
        \* the exponent (g * M) / (R * 0.0065) = (9.807 * 0.0289644) /
        \* (8.31447 * 0.0065), a quotient of literals: 5.2560 to four places
        exponent == Lit(52560, 10000)
    IN  JMul(P0, JPow(ratio, exponent))

\* calculateHargreavesSamani(Tmax, Tmin, latitude, julianDay)
calculateHargreavesSamani(Tmax, Tmin, latitude, julianDay) ==
    LET Tmean == JMulQ(JAdd(Tmax, Tmin), 1, 2)
        TR == JSub(Tmax, Tmin)
        Ra == calculateExtraterrestrialRadiation(latitude, julianDay)
        \* 0.0023 * (Tmean + 17.8) * Math.sqrt(TR) * Ra * kRs, kRs = 0.19
        ET0 == JMulQ(JMul(JMul(JMulQ(JAdd(Tmean, Lit(178, 10)), 23, 10000),
                                JSqrt(TR)), Ra), 19, 100)
    IN  JMax(Num(0), ET0)

\* calculatePriestleyTaylor(Tmean, Rn)
calculatePriestleyTaylor(Tmean, Rn) ==
    LET es == SaturationVapourPressure(Tmean)
        delta == SlopeOfVapourPressureCurve(es, Tmean)
        gamma == Lit(66, 1000)
        alpha == Lit(126, 100)
        ET0 == JMul(JMul(alpha, JDiv(delta, JAdd(delta, gamma))),
                    JDiv(Rn, Lit(245, 100)))
    IN  JMax(Num(0), ET0)

\* convertSolarRadiationToDaily(solarRadiationW): W * 0.0864
convertSolarRadiationToDaily(solarRadiationW) == JMulQ(solarRadiationW, 864, 10000)


\* getJulianDay(): the day of the year of the wall clock, which the model
\* holds as the state variable today and passes in.
getJulianDay(today) == Num(today * S)

\* calculateNetRadiation(Rs, Tmean, ea, latitude, julianDay) of
\* src/api/et0-calculator.js.  Its line 198 reads `altitude`, which is neither
\* a parameter nor a local nor a global of the module: evaluating it raises a
\* ReferenceError, on every call.
calculateNetRadiation(Rs, Tmean, ea, latitude, julianDay) == Thrown

\* calculateNetRadiation(Rs, Tmean, ea, latitude, altitude, julianDay) of
\* src/api/fieldclimate.js.
calculateNetRadiationFC(Rs, Tmean, ea, latitude, altitude, julianDay) ==
    LET albedo == Lit(23, 100)
        Rns == JMul(JSub(Lit(1, 1), albedo), Rs)
        \* sigma = 4.903e-9 multiplies fourth powers of kelvin temperatures;
        \* regrouped as (sigma * 10^8) * (T / 100)^4
        sigma8 == Lit(4903, 10000)
        Tmax_k == JAdd(JAdd(Tmean, Lit(10, 1)), Lit(27316, 100))
        Tmin_k == JAdd(JSub(Tmean, Lit(10, 1)), Lit(27316, 100))
        Rso == calculateClearSkyRadiation(latitude, altitude, julianDay)
        Rs_Rso == JMin(JDiv(Rs, Rso), Lit(1, 1))
        cloudFactor == JSub(JMul(Lit(135, 100), Rs_Rso), Lit(35, 100))
        Rnl == JMul(JMul(JMul(sigma8,
                              JMulQ(JAdd(JFourth(JMulQ(Tmax_k, 1, 100)),
                                         JFourth(JMulQ(Tmin_k, 1, 100))), 1, 2)),
                         JSub(Lit(34, 100), JMul(Lit(14, 100), JSqrt(ea)))),
                    cloudFactor)
        Rn == JSub(Rns, Rnl)
    IN  JMax(Num(0), Rn)

\* Steps 3 of calculatePenmanMonteithFAO56: the actual vapour pressure ea.
ActualVapourPressure(params, es, es_max, es_min) ==
    IF Truthy(params.umidade_relativa_max) /\ Truthy(params.umidade_relativa_min)
    THEN JMulQ(JAdd(JMul(es_min, JMulQ(params.umidade_relativa_max, 1, 100)),
                    JMul(es_max, JMulQ(params.umidade_relativa_min, 1, 100))), 1, 2)
    ELSE IF Truthy(params.umidade_relativa_med)
    THEN JMul(es, JMulQ(params.umidade_relativa_med, 1, 100))
    ELSE JMul(es, Lit(70, 100))

\* Steps 9 and 10 of calculatePenmanMonteithFAO56: the combination formula.
PenmanMonteithET0(delta, gamma, Rn, Tmean, u2, VPD) ==
    LET G == Num(0)
        numerador == JAdd(JMul(JMul(Lit(408, 1000), delta), JSub(Rn, G)),
                          JMul(JMul(JMul(gamma, JDiv(Lit(900, 1), JAdd(Tmean, Lit(273, 1)))),
                                    u2), VPD))
        denominador == JAdd(delta, JMul(gamma, JAdd(Lit(1, 1), JMul(Lit(34, 100), u2))))
    IN  JMax(Num(0), JDiv(numerador, denominador))

\* calculatePenmanMonteithFAO56(params, stationInfo) of
\* src/api/et0-calculator.js: an outcome (a value or an exception).
calculatePenmanMonteithFAO56(params, stationInfo, today) ==
    IF ~stationInfo.obj THEN Thrown  \* destructuring undefined: TypeError
    ELSE
    LET latitude == stationInfo.latitude
        altitude == Default(stationInfo.altitude, Lit(400, 1))
        julianDay == Default(stationInfo.julianDay, getJulianDay(today))
        Tmean == JMulQ(JAdd(params.temperatura_maxima, params.temperatura_minima), 1, 2)
        es_max == SaturationVapourPressure(params.temperatura_maxima)
        es_min == SaturationVapourPressure(params.temperatura_minima)
        es == JMulQ(JAdd(es_max, es_min), 1, 2)
        ea == ActualVapourPressure(params, es, es_max, es_min)
        VPD == JSub(es, ea)
        delta == SlopeOfVapourPressureCurve(es, Tmean)
        P == OrElse(params.pressao_atmosferica, calculateAtmosphericPressure(altitude))
        gamma == JMulQ(P, 665, 1000000)
        Rn == calculateNetRadiation(params.radiacao_solar, Tmean, ea, latitude, julianDay)
        u2 == OrElse(params.velocidade_vento_2m, Lit(2, 1))
    IN  IF Rn.threw THEN Thrown
        ELSE Ret(PenmanMonteithET0(delta, gamma, Rn.val, Tmean, u2, VPD))

\* calculatePenmanMonteithFAO56(params, stationInfo) of src/api/fieldclimate.js
calculatePenmanMonteithFAO56FC(params, stationInfo, today) ==
    IF ~stationInfo.obj THEN Thrown
    ELSE
    LET latitude == stationInfo.latitude
        altitude == Default(stationInfo.altitude, Lit(400, 1))
        julianDay == Default(stationInfo.julianDay, getJulianDay(today))
        Tmean == JMulQ(JAdd(params.temperatura_maxima, params.temperatura_minima), 1, 2)
        es_max == SaturationVapourPressure(params.temperatura_maxima)
        es_min == SaturationVapourPressure(params.temperatura_minima)
        es == JMulQ(JAdd(es_max, es_min), 1, 2)
        ea == ActualVapourPressure(params, es, es_max, es_min)
        VPD == JSub(es, ea)
        delta == SlopeOfVapourPressureCurve(es, Tmean)
        P == OrElse(params.pressao_atmosferica, calculateAtmosphericPressure(altitude))
        gamma == JMulQ(P, 665, 1000000)
        Rn == calculateNetRadiationFC(params.radiacao_solar, Tmean, ea, latitude,
                                      altitude, julianDay)
        u2 == OrElse(params.velocidade_vento_2m, Lit(2, 1))
    IN  Ret(PenmanMonteithET0(delta, gamma, Rn, Tmean, u2, VPD))


(***************************************************************************)
(* ET0Calculator.selectBestMethod: the locals of one call, and one         *)
(* operator per "MÉTODO" block.  usedParams is an object: a function from  *)
(* the keys the code can set to their values, Undefined for a key not set. *)
(***************************************************************************)
UsedKeys == {"temperatura_maxima", "temperatura_minima", "temperatura_media",
             "temperatura_estimada", "umidade_relativa", "radiacao_solar",
             "velocidade_vento", "latitude", "regiao", "mes_do_ano", "fonte"}
EmptyObject == [k \in UsedKeys |-> Undefined]
\* Object.keys(o).length
KeyCount(o) == Cardinality({k \in UsedKeys : o[k].t # "undef"})

\* let method = ''; let et0Value = 0; let quality = 'muito_baixa'; let usedParams = {}
\* (raised: an exception left the function)
InitialLocals == [method |-> "", et0Value |-> Num(0), quality |-> "muito_baixa",
                  usedParams |-> EmptyObject, raised |-> FALSE]

\* A normalization that converts from 100 on: it would convert again a value
\* it has already converted.
NormalizeRadiationFrom100(radiacao_solar) ==
    IF JGt(radiacao_solar, Lit(100, 1))
    THEN convertSolarRadiationToDaily(radiacao_solar)
    ELSE radiacao_solar

\* let Rs_MJ = radiacao_solar; if (radiacao_solar > 1000) Rs_MJ = convert(...)
NormalizeRadiation(radiacao_solar) ==
    IF JGt(radiacao_solar, Lit(1000, 1))
    THEN convertSolarRadiationToDaily(radiacao_solar)
    ELSE radiacao_solar

\* method === '' || quality === 'muito_baixa'
StillUndecided(loc) == loc.method = "" \/ loc.quality = "muito_baixa"

\* The data conditions of the four blocks.
PenmanMonteithApplies(p) ==
    Truthy(p.temperatura_maxima) /\ Truthy(p.temperatura_minima) /\ Truthy(p.radiacao_solar)
PenmanMonteithAppliesFC(p) ==
    /\ Truthy(p.temperatura_maxima) /\ Truthy(p.temperatura_minima)
    /\ Truthy(p.radiacao_solar) /\ Truthy(p.umidade_relativa_med)
    /\ Truthy(p.velocidade_vento_2m)
HargreavesSamaniApplies(p) ==
    Truthy(p.temperatura_maxima) /\ Truthy(p.temperatura_minima)
PriestleyTaylorApplies(p) ==
    Truthy(p.temperatura_maxima) /\ Truthy(p.temperatura_minima) /\ Truthy(p.radiacao_solar)

\* MÉTODO 1 of src/api/et0-calculator.js
Metodo1(p, stationInfo, today, loc) ==
    IF PenmanMonteithApplies(p)
    THEN LET Rs_MJ == NormalizeRadiation(p.radiacao_solar)
             et0Params == [p EXCEPT !.radiacao_solar = Rs_MJ,
                                    !.pressao_atmosferica = Undefined]
             r == calculatePenmanMonteithFAO56(et0Params, stationInfo, today)
         IN  IF r.threw THEN loc   \* catch (error) { console.error(...) }
             ELSE [loc EXCEPT
                     !.et0Value = r.val,
                     !.method = "penman_monteith_fao56",
                     !.quality = "alta",
                     !.usedParams = [EmptyObject EXCEPT
                         !["temperatura_maxima"] = ToFixed(p.temperatura_maxima, 1),
                         !["temperatura_minima"] = ToFixed(p.temperatura_minima, 1),
                         !["radiacao_solar"] = ToFixed(Rs_MJ, 2),
                         !["velocidade_vento"] =
                             IF Present(p.velocidade_vento_2m)
                             THEN ToFixed(p.velocidade_vento_2m, 1)
                             ELSE Str("2.0 (padrao)")]]
    ELSE loc

\* MÉTODO 1 of src/api/fieldclimate.js
Metodo1FC(p, stationInfo, today, loc) ==
    IF PenmanMonteithAppliesFC(p)
    THEN LET Rs_MJ == NormalizeRadiation(p.radiacao_solar)
             et0Params == [p EXCEPT !.radiacao_solar = Rs_MJ,
                                    !.umidade_relativa_max = Undefined,
                                    !.umidade_relativa_min = Undefined,
                                    !.pressao_atmosferica = Undefined]
             r == calculatePenmanMonteithFAO56FC(et0Params, stationInfo, today)
         IN  IF r.threw THEN loc
             ELSE [loc EXCEPT
                     !.et0Value = r.val,
                     !.method = "penman_monteith_fao56",
                     !.quality = "alta",
                     !.usedParams = [EmptyObject EXCEPT
                         !["temperatura_maxima"] = ToFixed(p.temperatura_maxima, 1),
                         !["temperatura_minima"] = ToFixed(p.temperatura_minima, 1),
                         !["umidade_relativa"] = ToFixed(p.umidade_relativa_med, 0),
                         !["radiacao_solar"] = ToFixed(Rs_MJ, 2),
                         !["velocidade_vento"] = ToFixed(p.velocidade_vento_2m, 1)]]
    ELSE loc

\* MÉTODO 2 of src/api/et0-calculator.js
Metodo2(p, stationInfo, today, loc) ==
    IF StillUndecided(loc) /\ HargreavesSamaniApplies(p)
    THEN IF ~stationInfo.obj THEN loc  \* stationInfo.latitude: TypeError, caught
         ELSE LET julianDay == getJulianDay(today)
              IN [loc EXCEPT
                   !.et0Value = calculateHargreavesSamani(
                                    p.temperatura_maxima, p.temperatura_minima,
                                    OrElse(stationInfo.latitude, Lit(-1215, 100)),
                                    julianDay),
                   !.method = "hargreaves_samani",
                   !.quality = "media",
                   !.usedParams = [EmptyObject EXCEPT
                       !["temperatura_maxima"] = ToFixed(p.temperatura_maxima, 1),
                       !["temperatura_minima"] = ToFixed(p.temperatura_minima, 1),
                       !["latitude"] = IF Present(stationInfo.latitude)
                                       THEN ToFixed(stationInfo.latitude, 2)
                                       ELSE Str("-12.15")]]
    ELSE loc

\* MÉTODO 2 of src/api/fieldclimate.js
Metodo2FC(p, stationInfo, today, loc) ==
    IF StillUndecided(loc) /\ HargreavesSamaniApplies(p)
    THEN IF ~stationInfo.obj THEN loc
         ELSE LET julianDay == getJulianDay(today)
                  assigned == [loc EXCEPT
                      !.et0Value = calculateHargreavesSamani(
                                       p.temperatura_maxima, p.temperatura_minima,
                                       stationInfo.latitude, julianDay),
                      !.method = "hargreaves_samani",
                      !.quality = "media"]
              IN  \* stationInfo.latitude.toFixed(2) throws without a latitude,
                  \* after the three assignments above
                  IF ~Present(stationInfo.latitude) THEN assigned
                  ELSE [assigned EXCEPT
                         !.usedParams = [EmptyObject EXCEPT
                             !["temperatura_maxima"] = ToFixed(p.temperatura_maxima, 1),
                             !["temperatura_minima"] = ToFixed(p.temperatura_minima, 1),
                             !["latitude"] = ToFixed(stationInfo.latitude, 2)]]
    ELSE loc

\* MÉTODO 3 without the test of method and quality: the block runs whenever
\* both temperatures and the radiation are there.
Metodo3Ungated(p, loc) ==
    IF PriestleyTaylorApplies(p)
    THEN LET Tmean == JMulQ(JAdd(p.temperatura_maxima, p.temperatura_minima), 1, 2)
             Rs_MJ == NormalizeRadiation(p.radiacao_solar)
             Rn == JMul(Rs_MJ, Lit(77, 100))
         IN  [loc EXCEPT
                !.et0Value = calculatePriestleyTaylor(Tmean, Rn),
                !.method = "priestley_taylor",
                !.quality = "media",
                !.usedParams = [EmptyObject EXCEPT
                    !["temperatura_media"] = ToFixed(Tmean, 1),
                    !["radiacao_solar"] = ToFixed(Rs_MJ, 2)]]
    ELSE loc

\* MÉTODO 3 (the same text in both files)
Metodo3(p, loc) ==
    IF StillUndecided(loc) /\ PriestleyTaylorApplies(p)
    THEN LET Tmean == JMulQ(JAdd(p.temperatura_maxima, p.temperatura_minima), 1, 2)
             Rs_MJ == NormalizeRadiation(p.radiacao_solar)
             Rn == JMul(Rs_MJ, Lit(77, 100))
         IN  [loc EXCEPT
                !.et0Value = calculatePriestleyTaylor(Tmean, Rn),
                !.method = "priestley_taylor",
                !.quality = "media",
                !.usedParams = [EmptyObject EXCEPT
                    !["temperatura_media"] = ToFixed(Tmean, 1),
                    !["radiacao_solar"] = ToFixed(Rs_MJ, 2)]]
    ELSE loc

\* A fallback block that asks for both temperatures: without them it would
\* leave method empty.
Metodo4NeedsTemperature(p, loc) ==
    IF StillUndecided(loc) /\ Truthy(p.temperatura_maxima) /\ Truthy(p.temperatura_minima)
    THEN [loc EXCEPT
            !.et0Value = JMul(Lit(3, 10),
                              JMulQ(JAdd(p.temperatura_maxima, p.temperatura_minima), 1, 2)),
            !.method = "estimativa_temperatura",
            !.quality = "baixa"]
    ELSE loc

\* MÉTODO 4 (the same text in both files)
Metodo4(p, loc) ==
    IF StillUndecided(loc)
    THEN LET Tmean == IF Truthy(p.temperatura_maxima) /\ Truthy(p.temperatura_minima)
                      THEN JMulQ(JAdd(p.temperatura_maxima, p.temperatura_minima), 1, 2)
                      ELSE Lit(25, 1)
         IN  [loc EXCEPT
                !.et0Value = JMul(Lit(3, 10), Tmean),
                !.method = "estimativa_temperatura",
                !.quality = "baixa",
                !.usedParams = [EmptyObject EXCEPT
                    !["temperatura_estimada"] = ToFixed(Tmean, 1),
                    !["regiao"] = Str("oeste_bahia")]]
    ELSE loc

\* return { value: Math.max(0, parseFloat(et0Value.toFixed(2))), method,
\*          quality, parameters: usedParams }
ReturnResult(loc) ==
    [value |-> JMax(Num(0), ToFixed(loc.et0Value, 2)),
     method |-> loc.method,
     quality |-> loc.quality,
     parameters |-> loc.usedParams]

\* this.REGION_PARAMS[stationId] || { latitude: -12.15, altitude: 400, timezone: -3 }
\* (the one entry of REGION_PARAMS, '031133E8', holds the same latitude and altitude)
ResolveStation(stationId) ==
    [obj |-> TRUE, latitude |-> Lit(-1215, 100), altitude |-> Lit(400, 1),
     julianDay |-> Undefined]

\* The whole of selectBestMethod(params, stationInfo), src/api/et0-calculator.js
selectBestMethod(p, stationInfo, today) ==
    ReturnResult(Metodo4(p, Metodo3(p, Metodo2(p, stationInfo, today,
                 Metodo1(p, stationInfo, today, InitialLocals)))))

\* The whole of selectBestMethod(params, stationId), src/api/fieldclimate.js
selectBestMethodFC(p, stationId, today) ==
    LET stationInfo == ResolveStation(stationId)
    IN  ReturnResult(Metodo4(p, Metodo3(p, Metodo2FC(p, stationInfo, today,
                     Metodo1FC(p, stationInfo, today, InitialLocals)))))

(***************************************************************************)
(* FieldClimateAPI.selectET0CalculationMethod: the five-branch selector of *)
(* src/unnamed/part_000 and its copy at the end of                         *)
(* src/api/et0-calculator.js.  Its params carry the names umidade_relativa *)
(* and velocidade_vento.                                                   *)
(***************************************************************************)
\* calculatePenmanMonteithET0(params) from the radiation Rs_MJ on: what the
\* function computes once const Rs_MJ has its value.
PenmanMonteithFromDaily(params, gamma, Rs_MJ) ==
    LET Tmean == params.temperatura_media
        RHmean == params.umidade_relativa
        u2 == OrElse(params.velocidade_vento, Lit(2, 1))
        es == SaturationVapourPressure(Tmean)
        ea == JMul(JMulQ(RHmean, 1, 100), es)
        VPD == JSub(es, ea)
        delta == SlopeOfVapourPressureCurve(es, Tmean)
        Rns == JMul(JSub(Lit(1, 1), Lit(23, 100)), Rs_MJ)
        \* 4.903e-9 * (Tmean + 273.16)^4, regrouped as 0.4903 * ((Tmean + 273.16)/100)^4
        Rnl == JMul(JMul(JMul(Lit(4903, 10000),
                              JFourth(JMulQ(JAdd(Tmean, Lit(27316, 100)), 1, 100))),
                         JSub(Lit(34, 100), JMul(Lit(14, 100), JSqrt(ea)))),
                    JSub(JMul(Lit(135, 100), JDiv(Rs_MJ, Lit(1476, 1000))),
                         Lit(35, 100)))
        Rn == JSub(Rns, Rnl)
        numerator == JAdd(JMul(JMul(Lit(408, 1000), delta), Rn),
                          JMul(JMul(JMul(gamma, JDiv(Lit(900, 1), JAdd(Tmean, Lit(273, 1)))),
                                    u2), VPD))
        denominator == JAdd(delta, JMul(gamma, JAdd(Lit(1, 1), JMul(Lit(34, 100), u2))))
    IN  JMax(Num(0), JDiv(numerator, denominator))

\* The body shared by the two copies of calculatePenmanMonteithET0(params);
\* they differ in the psychrometric constant gamma only.
\* const Rs_MJ = Rs * 0.0864, whatever Rs is.
SimplifiedPenmanMonteith(params, gamma) ==
    PenmanMonteithFromDaily(params, gamma, JMulQ(params.radiacao_solar, 864, 10000))

\* src/unnamed/part_000: gamma = 0.665 * 0.001 * 101.3
calculatePenmanMonteithET0(params) ==
    SimplifiedPenmanMonteith(params, JMulQ(Lit(1013, 10), 665, 1000000))

\* src/api/et0-calculator.js: altitude = 455, gamma = 0.000665 * P
calculatePenmanMonteithET0Client(params) ==
    SimplifiedPenmanMonteith(params,
        JMulQ(JMul(Lit(1013, 10),
                   JPow(JDiv(JSub(Lit(293, 1), JMul(Lit(65, 10000), Lit(455, 1))),
                             Lit(293, 1)),
                        Lit(526, 100))),
              665, 1000000))

\* 0.0023 * Ra * (Tmean + 17.8) * Math.sqrt(Tmax - Tmin), the factor 0.0023 last
HargreavesFromDaily(Tmax, Tmin, Ra) ==
    LET Tmean == JMulQ(JAdd(Tmax, Tmin), 1, 2)
    IN  JMulQ(JMul(JMul(Ra, JAdd(Tmean, Lit(178, 10))), JSqrt(JSub(Tmax, Tmin))),
              23, 10000)

\* calculateHargreavesET0(Tmax, Tmin, Rs): const Ra = Rs * 0.0864, whatever Rs is.
calculateHargreavesET0(Tmax, Tmin, Rs) ==
    HargreavesFromDaily(Tmax, Tmin, JMulQ(Rs, 864, 10000))

\* 0.0023 * 15 * Math.pow(tempRange, 0.674) * (Tmean - 3.5), the factor 0.0023 last
calculateHargreavesTemperatureOnly(Tmax, Tmin) ==
    LET Tmean == JMulQ(JAdd(Tmax, Tmin), 1, 2)
        tempRange == JSub(Tmax, Tmin)
        Ra_estimated == Lit(15, 1)
    IN  JMulQ(JMul(JMul(Ra_estimated, JPow(tempRange, Lit(674, 1000))),
                   JSub(Tmean, Lit(35, 10))),
              23, 10000)

estimateET0FromTemperature(Tmean) ==
    IF JGt(Tmean, Lit(10, 1)) THEN JMul(Lit(2, 10), Tmean)
                              ELSE JMul(Lit(1, 10), Tmean)

\* assessDataQuality(parameters) of src/unnamed/part_000
assessDataQuality(parameters) ==
    LET paramCount == KeyCount(parameters)
    IN  IF paramCount >= 4 THEN "alta"
        ELSE IF paramCount >= 2 THEN "media"
        ELSE IF paramCount >= 1 THEN "baixa"
        ELSE "muito_baixa"

\* assessDataQuality(parameters) of src/api/et0-calculator.js
assessDataQualityClient(parameters) ==
    LET paramCount == KeyCount(parameters)
    IN  IF paramCount >= 4 THEN "alta"
        ELSE IF paramCount >= 2 THEN "media"
        ELSE "baixa"

\* The branch the if / else-if chain takes, as the method name it assigns.
SelectedBranch(params) ==
    IF /\ Truthy(params.temperatura_media) /\ Truthy(params.umidade_relativa)
       /\ Truthy(params.radiacao_solar) /\ Truthy(params.velocidade_vento)
    THEN "penman_monteith_completo"
    ELSE IF /\ Truthy(params.temperatura_maxima) /\ Truthy(params.temperatura_minima)
            /\ Truthy(params.radiacao_solar)
    THEN "hargreaves_temperatura_radiacao"
    ELSE IF Truthy(params.temperatura_maxima) /\ Truthy(params.temperatura_minima)
    THEN "hargreaves_apenas_temperatura"
    ELSE IF Truthy(params.temperatura_media)
    THEN "estimativa_temperatura_media"
    ELSE "estimativa_padrao"

\* et0Value as the selected branch computes it (pm: that copy's Penman-Monteith)
BranchValue(params, branch, pm) ==
    CASE branch = "penman_monteith_completo" -> pm
      [] branch = "hargreaves_temperatura_radiacao" ->
            calculateHargreavesET0(params.temperatura_maxima,
                                   params.temperatura_minima, params.radiacao_solar)
      [] branch = "hargreaves_apenas_temperatura" ->
            calculateHargreavesTemperatureOnly(params.temperatura_maxima,
                                               params.temperatura_minima)
      [] branch = "estimativa_temperatura_media" ->
            estimateET0FromTemperature(params.temperatura_media)
      [] OTHER -> Lit(35, 10)

\* The keys usedParameters gets in the selected branch.
BranchKeys(branch) ==
    CASE branch = "penman_monteith_completo" ->
            {"temperatura_media", "umidade_relativa", "radiacao_solar", "velocidade_vento"}
      [] branch = "hargreaves_temperatura_radiacao" ->
            {"temperatura_maxima", "temperatura_minima", "radiacao_solar"}
      [] branch = "hargreaves_apenas_temperatura" ->
            {"temperatura_maxima", "temperatura_minima"}
      [] branch = "estimativa_temperatura_media" -> {"temperatura_media"}
      [] OTHER -> {}

\* Digits each key is formatted with in src/unnamed/part_000.
KeyDigits(k) == IF k \in {"umidade_relativa", "radiacao_solar"} THEN 0 ELSE 1

\* The value a key of usedParameters is read from.
KeyValue(params, k) ==
    CASE k = "temperatura_media" -> params.temperatura_media
      [] k = "temperatura_maxima" -> params.temperatura_maxima
      [] k = "temperatura_minima" -> params.temperatura_minima
      [] k = "umidade_relativa" -> params.umidade_relativa
      [] k = "radiacao_solar" -> params.radiacao_solar
      [] k = "velocidade_vento" -> params.velocidade_vento
      [] OTHER -> Undefined

\* selectET0CalculationMethod(params) of src/unnamed/part_000
selectET0CalculationMethod(params) ==
    LET calculationMethod == SelectedBranch(params)
        et0Value == BranchValue(params, calculationMethod,
                                calculatePenmanMonteithET0(params))
        usedParameters == [k \in UsedKeys |->
                             IF k \in BranchKeys(calculationMethod)
                             THEN ToFixed(KeyValue(params, k), KeyDigits(k))
                             ELSE Undefined]
    IN  [value |-> JMax(Num(0), ToFixed(et0Value, 1)),
         method |-> calculationMethod,
         parameters |-> usedParameters,
         quality |-> assessDataQuality(usedParameters)]

\* selectET0CalculationMethod(params) of src/api/et0-calculator.js
selectET0CalculationMethodClient(params) ==
    LET calculationMethod == SelectedBranch(params)
        et0Value == BranchValue(params, calculationMethod,
                                calculatePenmanMonteithET0Client(params))
        usedParameters == [k \in UsedKeys |->
                             IF k \in BranchKeys(calculationMethod)
                             THEN KeyValue(params, k)
                             ELSE Undefined]
    IN  [value |-> JMax(Num(0), ToFixed(et0Value, 1)),
         method |-> calculationMethod,
         parameters |-> usedParameters,
         quality |-> assessDataQualityClient(usedParameters)]

(***************************************************************************)
(* The state machine.  A behaviour follows one caller that holds one set   *)
(* of arguments and calls one of the four selectors again and again while  *)
(* the calendar advances between the calls.  selectBestMethod runs block   *)
(* by block; selectET0CalculationMethod is a single if / else-if chain and *)
(* runs in one step.                                                       *)
(***************************************************************************)
\* The selectors: ET0Calculator.selectBestMethod of src/api/et0-calculator.js
\* and of src/api/fieldclimate.js, FieldClimateAPI.selectET0CalculationMethod
\* of src/unnamed/part_000 and of src/api/et0-calculator.js.
Chained == {"et0-calculator", "fieldclimate"}
Flat == {"part_000", "et0-calculator-client"}

\* Values of the aggregated parameters: absent, zero, negative, ordinary.
TmaxValues == {Null, Lit(0, 1), Lit(18, 1), Lit(30, 1)}
TminValues == {Null, Lit(-5, 1), Lit(0, 1), Lit(18, 1), Lit(30, 1)}
TmeanValues == {Null, Lit(24, 1)}
RadiationValues == {Null, Lit(0, 1), Lit(225, 10), Lit(250, 1), Lit(1000, 1),
                    Lit(1200, 1), Lit(11574, 1), Lit(12000, 1)}
HumidityValues == {Null, Lit(65, 1)}
WindValues == {Null, Lit(0, 1), Lit(23, 10)}

\* Station metadata handed to selectBestMethod(params, stationInfo):
\* no object at all, the default record, the record with a day-of-year
\* override, an object without latitude.
MissingStation == [obj |-> FALSE, latitude |-> Undefined, altitude |-> Undefined,
                   julianDay |-> Undefined]
StationInfos == {MissingStation,
                 [obj |-> TRUE, latitude |-> Lit(-1215, 100), altitude |-> Lit(400, 1),
                  julianDay |-> Undefined],
                 [obj |-> TRUE, latitude |-> Lit(-1215, 100), altitude |-> Lit(400, 1),
                  julianDay |-> Lit(180, 1)],
                 [obj |-> TRUE, latitude |-> Undefined, altitude |-> Undefined,
                  julianDay |-> Undefined]}
StationIds == {"031133E8", "desconhecida"}

\* Days of the year on which a call can run.
Days == {15, 180}

\* The result before any call has returned.
NoResult == [value |-> Undefined, method |-> "", quality |-> "",
             parameters |-> EmptyObject]

\* The params object as selectET0CalculationMethod names its fields.
FlatParams(p) ==
    [temperatura_media |-> p.temperatura_media,
     temperatura_maxima |-> p.temperatura_maxima,
     temperatura_minima |-> p.temperatura_minima,
     umidade_relativa |-> p.umidade_relativa_med,
     radiacao_solar |-> p.radiacao_solar,
     velocidade_vento |-> p.velocidade_vento_2m]

\* The API route before a request has arrived: no request, nothing fetched,
\* calculateET0 not settled, nothing sent.
NoRequest == [method |-> "", body |-> FALSE, keys |-> FALSE, action |-> "",
              stationId |-> ""]
NoData == [kind |-> "none", data |-> <<>>]
NoET0 == [value |-> Undefined, method |-> "", parameters |-> EmptyObject,
          data_quality |-> ""]
Pending == [state |-> "pending", success |-> FALSE, data |-> NoET0]
NoResponse == [status |-> 0, json |-> FALSE, success |-> FALSE, data |-> NoET0]

VARIABLES impl, params, stationInfo, stationId, today, pc, loc, result, last,
          req, stationData, outcome, res,
          sent, upstream, ret

vars == <<impl, params, stationInfo, stationId, today, pc, loc, result, last,
          req, stationData, outcome, res, sent, upstream, ret>>

\* What the API route holds: the request, the telemetry it fetched, the
\* settlement of calculateET0 and the response.
route == <<req, stationData, outcome, res>>

\* What one invocation of a handler has done so far: the number of responses
\* it sent and the requests it issued upstream; and the outcome of a function
\* that is called on its own.
calls == <<sent, upstream, ret>>
NoCall == [threw |-> FALSE, val |-> Undefined]

ParamSets ==
    [temperatura_media : TmeanValues,
     temperatura_maxima : TmaxValues,
     temperatura_minima : TminValues,
     umidade_relativa_max : {Undefined},
     umidade_relativa_min : {Undefined},
     umidade_relativa_med : HumidityValues,
     radiacao_solar : RadiationValues,
     velocidade_vento_2m : WindValues,
     pressao_atmosferica : {Undefined},
     chuva : {Null}]

Init ==
    /\ impl \in Chained \cup Flat
    /\ params \in ParamSets
    /\ stationInfo \in IF impl = "et0-calculator" THEN StationInfos ELSE {MissingStation}
    /\ stationId \in IF impl = "fieldclimate" THEN StationIds ELSE {""}
    /\ today \in Days
    /\ pc = "idle"
    /\ loc = InitialLocals
    /\ result = NoResult
    /\ last = NoResult
    /\ req = NoRequest
    /\ stationData = NoData
    /\ outcome = Pending
    /\ res = NoResponse
    /\ sent = 0
    /\ upstream = <<>>
    /\ ret = NoCall

\* The calendar advances between two calls.
Tick ==
    /\ pc \in {"idle", "done"}
    /\ today' \in Days \ {today}
    /\ UNCHANGED route
    /\ UNCHANGED <<impl, params, stationInfo, stationId, pc, loc, result, last>>
    /\ UNCHANGED calls

\* selectBestMethod is called: destructuring and the four let declarations.
Call ==
    /\ impl \in Chained
    /\ pc \in {"idle", "done"}
    /\ loc' = InitialLocals
    /\ last' = IF pc = "done" THEN result ELSE last
    /\ result' = NoResult
    /\ pc' = "m1"
    /\ UNCHANGED route
    /\ UNCHANGED <<impl, params, stationInfo, stationId, today>>
    /\ UNCHANGED calls

\* Where the call is after a block has run.
After(newLoc, next) == IF newLoc.raised THEN "raised" ELSE next

PenmanMonteithStage ==
    /\ pc = "m1"
    /\ loc' = IF impl = "et0-calculator"
              THEN Metodo1(params, stationInfo, today, loc)
              ELSE Metodo1FC(params, ResolveStation(stationId), today, loc)
    /\ pc' = After(loc', "m2")
    /\ UNCHANGED route
    /\ UNCHANGED <<impl, params, stationInfo, stationId, today, result, last>>
    /\ UNCHANGED calls

HargreavesSamaniStage ==
    /\ pc = "m2"
    /\ loc' = IF impl = "et0-calculator"
              THEN Metodo2(params, stationInfo, today, loc)
              ELSE Metodo2FC(params, ResolveStation(stationId), today, loc)
    /\ pc' = After(loc', "m3")
    /\ UNCHANGED route
    /\ UNCHANGED <<impl, params, stationInfo, stationId, today, result, last>>
    /\ UNCHANGED calls

PriestleyTaylorStage ==
    /\ pc = "m3"
    /\ loc' = Metodo3(params, loc)
    /\ pc' = After(loc', "m4")
    /\ UNCHANGED route
    /\ UNCHANGED <<impl, params, stationInfo, stationId, today, result, last>>
    /\ UNCHANGED calls

FallbackStage ==
    /\ pc = "m4"
    /\ loc' = Metodo4(params, loc)
    /\ pc' = After(loc', "ret")
    /\ UNCHANGED route
    /\ UNCHANGED <<impl, params, stationInfo, stationId, today, result, last>>
    /\ UNCHANGED calls

Return ==
    /\ pc = "ret"
    /\ result' = ReturnResult(loc)
    /\ pc' = "done"
    /\ UNCHANGED route
    /\ UNCHANGED <<impl, params, stationInfo, stationId, today, loc, last>>
    /\ UNCHANGED calls

\* selectET0CalculationMethod(params), call to return
SelectET0 ==
    /\ impl \in Flat
    /\ pc \in {"idle", "done"}
    /\ last' = IF pc = "done" THEN result ELSE last
    /\ result' = IF impl = "part_000"
                 THEN selectET0CalculationMethod(FlatParams(params))
                 ELSE selectET0CalculationMethodClient(FlatParams(params))
    /\ pc' = "done"
    /\ UNCHANGED route
    /\ UNCHANGED <<impl, params, stationInfo, stationId, today, loc>>
    /\ UNCHANGED calls

Next ==
    \/ Tick
    \/ Call
    \/ PenmanMonteithStage
    \/ HargreavesSamaniStage
    \/ PriestleyTaylorStage
    \/ FallbackStage
    \/ Return
    \/ SelectET0

Spec == Init /\ [][Next]_vars

(***************************************************************************)
(* Properties of the method selectors.                                     *)
(***************************************************************************)
\* The method names the selectors assign, and the quality grades.
MethodEnumeration == {"penman_monteith_fao56", "hargreaves_samani", "priestley_taylor",
                      "estimativa_temperatura", "penman_monteith_completo",
                      "hargreaves_temperatura_radiacao", "hargreaves_apenas_temperatura",
                      "estimativa_temperatura_media", "estimativa_padrao"}
QualityGrades == {"alta", "media", "baixa", "muito_baixa"}

\* A call has returned and result holds what it returned.
Returned == pc = "done"

\* C1: whenever maximum temperature, minimum temperature, solar radiation and
\* wind speed are all present (humidity present or not), selectBestMethod
\* returns method penman_monteith_fao56 with quality alta.
C1_PenmanMonteithWhenFourPresent ==
    (/\ impl \in Chained /\ Returned
     /\ Present(params.temperatura_maxima) /\ Present(params.temperatura_minima)
     /\ Present(params.radiacao_solar) /\ Present(params.velocidade_vento_2m))
    => (result.method = "penman_monteith_fao56" /\ result.quality = "alta")

\* C2: the selector is total: whatever parameters are present or absent and
\* whatever station metadata it gets (none at all included), no exception
\* leaves it, and what it returns carries a non-empty method of the method
\* enumeration and a quality among alta, media, baixa, muito_baixa.
C2_SelectorTotal ==
    /\ pc # "raised"
    /\ ~loc.raised
    /\ Returned => /\ result.method # ""
                   /\ result.method \in MethodEnumeration
                   /\ result.quality \in QualityGrades

\* A call without station metadata and without any temperature has returned.
C2_Witness ==
    /\ Returned /\ impl = "et0-calculator" /\ ~stationInfo.obj
    /\ ~Present(params.temperatura_maxima) /\ ~Present(params.temperatura_minima)
    /\ Present(params.radiacao_solar)
    /\ result.method = "estimativa_temperatura"

\* C3: for every input, negative values and Tmax < Tmin included, the value
\* returned is a number greater than or equal to 0.
C3_ValueIsNonNegativeNumber ==
    Returned => (IsNum(result.value) /\ result.value.v >= 0)

\* A latitude reaches the Hargreaves-Samani block.
LatitudeAvailable ==
    \/ impl = "fieldclimate"
    \/ impl = "et0-calculator" /\ stationInfo.obj /\ Present(stationInfo.latitude)

\* C4: when only maximum and minimum temperature are present (radiation,
\* wind and humidity absent) and a latitude is available, the selector returns
\* method hargreaves_samani with quality media and does not raise.
C4_TemperatureOnlyIsHargreavesSamani ==
    (/\ impl \in Chained /\ pc \in {"done", "raised"} /\ LatitudeAvailable
     /\ Present(params.temperatura_maxima) /\ Present(params.temperatura_minima)
     /\ ~Present(params.radiacao_solar) /\ ~Present(params.velocidade_vento_2m)
     /\ ~Present(params.umidade_relativa_med))
    => (pc = "done" /\ result.method = "hargreaves_samani" /\ result.quality = "media")

\* C5: when no temperature at all is available (mean, maximum and minimum
\* absent) the selector returns method estimativa_padrao, quality muito_baixa
\* and the value 3.5.
C5_NoTemperatureGivesDefault ==
    (/\ Returned
     /\ ~Present(params.temperatura_media) /\ ~Present(params.temperatura_maxima)
     /\ ~Present(params.temperatura_minima))
    => (/\ result.method = "estimativa_padrao"
        /\ result.quality = "muito_baixa"
        /\ result.value = Lit(35, 10))

\* The method a whole call of the selector i returns for the arguments.
MethodReturned(i, p, si, sid, d) ==
    CASE i = "et0-calculator" -> selectBestMethod(p, si, d).method
      [] i = "fieldclimate" -> selectBestMethodFC(p, sid, d).method
      [] i = "part_000" -> selectET0CalculationMethod(FlatParams(p)).method
      [] OTHER -> selectET0CalculationMethodClient(FlatParams(p)).method

\* The fields the stage preconditions read, and the values each can take.
ConditionFields == {"temperatura_media", "temperatura_maxima", "temperatura_minima",
                    "umidade_relativa_med", "radiacao_solar", "velocidade_vento_2m"}
FieldValues(f) ==
    CASE f = "temperatura_media" -> TmeanValues
      [] f = "temperatura_maxima" -> TmaxValues
      [] f = "temperatura_minima" -> TminValues
      [] f = "umidade_relativa_med" -> HumidityValues
      [] f = "radiacao_solar" -> RadiationValues
      [] OTHER -> WindValues

\* C6: a parameter whose value is 0 counts as present: the stage chosen for
\* an input with a zero-valued field is the stage chosen for the same input
\* with that field set to any other present value.
C6_ZeroCountsAsPresent ==
    Returned =>
        \A f \in ConditionFields :
            params[f] = Num(0) =>
                \A x \in {y \in FieldValues(f) : Present(y)} :
                    MethodReturned(impl, [params EXCEPT ![f] = x],
                                   stationInfo, stationId, today) = result.method

\* The stages of selectBestMethod in their order, with the method each assigns.
StageMethod(k) ==
    CASE k = 1 -> "penman_monteith_fao56"
      [] k = 2 -> "hargreaves_samani"
      [] k = 3 -> "priestley_taylor"
      [] OTHER -> "estimativa_temperatura"

\* The precondition of stage k: the data it requires are present.
StagePrecondition(k) ==
    CASE k = 1 -> /\ Present(params.temperatura_maxima)
                  /\ Present(params.temperatura_minima)
                  /\ Present(params.radiacao_solar)
      [] k = 2 -> Present(params.temperatura_maxima) /\ Present(params.temperatura_minima)
      [] k = 3 -> /\ Present(params.temperatura_maxima)
                  /\ Present(params.temperatura_minima)
                  /\ Present(params.radiacao_solar)
      [] OTHER -> TRUE

\* The computation of stage k ends without an exception.
StageCompletes(k) ==
    CASE k = 1 -> IF impl = "et0-calculator"
                  THEN ~calculatePenmanMonteithFAO56(params, stationInfo, today).threw
                  ELSE ~calculatePenmanMonteithFAO56FC(params, ResolveStation(stationId),
                                                       today).threw
      [] k = 2 -> impl = "fieldclimate" \/ stationInfo.obj
      [] OTHER -> TRUE

\* The method of the first of the stages 1..n whose precondition holds and
\* whose computation completes; the empty string when there is none.
FirstSuccessful(n) ==
    LET ok == {k \in 1..n : StagePrecondition(k) /\ StageCompletes(k)}
    IN  IF ok = {} THEN ""
        ELSE StageMethod(CHOOSE k \in ok : \A j \in ok : k <= j)

\* How many stages the running call has been through.
StagesPassed ==
    CASE pc = "m1" -> 0
      [] pc = "m2" -> 1
      [] pc = "m3" -> 2
      [] pc = "m4" -> 3
      [] OTHER -> 4

\* C7: selectBestMethod goes through Penman-Monteith, Hargreaves-Samani,
\* Priestley-Taylor and the temperature fallback in this order; at every point
\* of a call the method held is that of the first stage passed so far whose
\* precondition holds and whose computation completed without error, so a
\* stage that completed is not overridden, and the method returned is that of
\* the first such stage of the four.
C7_FirstSuccessfulStageWins ==
    /\ (impl \in Chained /\ pc \in {"m1", "m2", "m3", "m4", "ret"})
          => loc.method = FirstSuccessful(StagesPassed)
    /\ (impl \in Chained /\ Returned) => result.method = FirstSuccessful(4)

\* C8: the Penman-Monteith stage is entered whenever maximum temperature,
\* minimum temperature and solar radiation are present, also when wind speed
\* and humidity are both absent; it then computes with wind 2.0 m/s and 70%
\* relative humidity and yields the Penman-Monteith result.
C8_PenmanMonteithWithDefaults ==
    (/\ impl \in Chained /\ Returned
     /\ Present(params.temperatura_maxima) /\ Present(params.temperatura_minima)
     /\ Present(params.radiacao_solar)
     /\ ~Present(params.velocidade_vento_2m) /\ ~Present(params.umidade_relativa_med))
    => (/\ result.method = "penman_monteith_fao56"
        /\ result.quality = "alta"
        /\ IsNum(result.value))

\* C9: a stage whose computation gives an undefined mathematical result is
\* treated as failed: it leaves no method behind, the selector goes on to a
\* later stage, and the undefined result is never returned.
C9_UndefinedResultIsStageFailure ==
    impl \in Chained =>
        /\ pc \in {"m2", "m3", "m4", "ret"} =>
              (loc.method # "" => loc.et0Value.t # "nan")
        /\ Returned => result.value.t # "nan"

\* C10: two calls with the same parameters and the same station metadata (a
\* supplied day-of-year included) return the same result whatever the date
\* on which each of them runs.
C10_SameArgumentsSameResult ==
    (Returned /\ last # NoResult) => result = last

\* The radiation a formula is to work with: the raw value times 0.0864 when
\* the raw value is above 1000, the raw value itself otherwise.
ExpectedDailyRadiation(raw) ==
    IF IsNum(raw) /\ raw.v > 1000 * S THEN JMulQ(raw, 864, 10000) ELSE raw

\* C11: before a formula that uses radiation is evaluated, solar radiation is
\* multiplied by 0.0864 exactly when the raw value is strictly above 1000 and
\* is used unchanged otherwise (250 and 1000 are used as they are).  The
\* radiation selectBestMethod reports as used, and the value the formulas of
\* selectET0CalculationMethod return, are those of that radiation.
C11_RadiationConvertedOnlyAbove1000 ==
    /\ (impl \in Chained /\ Returned /\ result.parameters["radiacao_solar"].t # "undef")
          => result.parameters["radiacao_solar"]
                 = ToFixed(ExpectedDailyRadiation(params.radiacao_solar), 2)
    /\ (impl = "part_000" /\ Returned /\ result.method = "penman_monteith_completo")
          => result.value
                 = JMax(Num(0),
                        ToFixed(PenmanMonteithFromDaily(
                                    FlatParams(params),
                                    JMulQ(Lit(1013, 10), 665, 1000000),
                                    ExpectedDailyRadiation(params.radiacao_solar)), 1))
    /\ (impl \in Flat /\ Returned /\ result.method = "hargreaves_temperatura_radiacao")
          => result.value
                 = JMax(Num(0),
                        ToFixed(HargreavesFromDaily(
                                    params.temperatura_maxima, params.temperatura_minima,
                                    ExpectedDailyRadiation(params.radiacao_solar)), 1))

\* C12, as stated: normalizing a radiation value that the same check has
\* already normalized leaves it unchanged, for every raw value.
C12_NormalizationIdempotent ==
    IsNum(params.radiacao_solar)
        => NormalizeRadiation(NormalizeRadiation(params.radiacao_solar))
               = NormalizeRadiation(params.radiacao_solar)

\* C12, amended: normalizing an already normalized value leaves it unchanged
\* for every raw value up to 11574 (1000 / 0.0864 rounded down); above that
\* the converted value is itself above 1000 and would be converted again.
C12_NormalizationIdempotentUpTo11574 ==
    (IsNum(params.radiacao_solar) /\ params.radiacao_solar.v <= 11574 * S)
        => NormalizeRadiation(NormalizeRadiation(params.radiacao_solar))
               = NormalizeRadiation(params.radiacao_solar)

\* A call has converted 1200 to 103.68 and reported it; the check leaves
\* 103.68 as it is.
C12_Witness ==
    /\ impl = "fieldclimate" /\ Returned
    /\ params.radiacao_solar = Lit(1200, 1)
    /\ result.parameters["radiacao_solar"] = Lit(10368, 100)
    /\ NormalizeRadiation(result.parameters["radiacao_solar"]) = Lit(10368, 100)


(***************************************************************************)
(* FieldClimateAPI.extractMeteorologicalParameters: the reduction of the   *)
(* fetched time series to the aggregated parameters.  The three copies     *)
(* (src/api/fieldclimate.js, src/unnamed/part_000, src/api/et0-calculator. *)
(* js) differ in the names of two fields only; the model keeps the names   *)
(* of src/api/fieldclimate.js and FlatParams renames them.                 *)
(***************************************************************************)
\* const params = { temperatura_media: null, ..., chuva: null }
AllAbsent ==
    [temperatura_media |-> Null, temperatura_maxima |-> Null,
     temperatura_minima |-> Null, umidade_relativa_max |-> Undefined,
     umidade_relativa_min |-> Undefined, umidade_relativa_med |-> Null,
     radiacao_solar |-> Null, velocidade_vento_2m |-> Null,
     pressao_atmosferica |-> Undefined, chuva |-> Null]

\* The fields of an entry that the extractor reads.
Quantities == {"air_temperature", "relative_humidity", "solar_radiation", "wind_speed"}

\* entries.forEach(entry => { if (entry[f] !== undefined) list.push(entry[f]) })
Collected(entries, f) ==
    SelectSeq([i \in 1..Len(entries) |-> entries[i][f]], LAMBDA x : x.t # "undef")

\* list.reduce((a, b) => a + b): a left fold without an initial value, so a
\* list of one element reduces to that element as it is.
RECURSIVE ReduceSum(_)
ReduceSum(list) ==
    IF Len(list) = 1 THEN list[1]
    ELSE JAdd(ReduceSum(SubSeq(list, 1, Len(list) - 1)), list[Len(list)])

\* list.reduce((a, b) => a + b) / list.length
MeanOf(list) == JDiv(ReduceSum(list), Num(Len(list) * S))

\* Math.max(...list) and Math.min(...list) for a list that is not empty
RECURSIVE MaxOf(_)
MaxOf(list) ==
    IF Len(list) = 1 THEN ToNumber(list[1])
    ELSE JMax(MaxOf(SubSeq(list, 1, Len(list) - 1)), list[Len(list)])
RECURSIVE MinOf(_)
MinOf(list) ==
    IF Len(list) = 1 THEN ToNumber(list[1])
    ELSE JMin(MinOf(SubSeq(list, 1, Len(list) - 1)), list[Len(list)])

\* A guard that tests the argument only: if (data)
IsObject(data) == data.kind # "null"

\* if (data && data.data && Array.isArray(data.data))
IsSeries(data) == data.kind = "array"

\* extractMeteorologicalParameters(data): forEach of a data member that is
\* no array, and reading a field of an entry that is null, raise a TypeError.
extractMeteorologicalParameters(data) ==
    IF ~IsSeries(data) THEN Ret(AllAbsent)
    ELSE IF data.kind # "array" THEN Thrown
    ELSE IF \E i \in 1..Len(data.data) : ~data.data[i].obj THEN Thrown
    ELSE LET temps == Collected(data.data, "air_temperature")
             humids == Collected(data.data, "relative_humidity")
             solar == Collected(data.data, "solar_radiation")
             winds == Collected(data.data, "wind_speed")
         IN  Ret([AllAbsent EXCEPT
                    !.temperatura_media =
                        IF Len(temps) > 0 THEN MeanOf(temps) ELSE Null,
                    !.temperatura_maxima =
                        IF Len(temps) > 0 THEN MaxOf(temps) ELSE Null,
                    !.temperatura_minima =
                        IF Len(temps) > 0 THEN MinOf(temps) ELSE Null,
                    !.umidade_relativa_med =
                        IF Len(humids) > 0 THEN MeanOf(humids) ELSE Null,
                    !.radiacao_solar =
                        IF Len(solar) > 0 THEN MeanOf(solar) ELSE Null,
                    !.velocidade_vento_2m =
                        IF Len(winds) > 0 THEN MeanOf(winds) ELSE Null])

(***************************************************************************)
(* The API route: handler(req, res) and calculateET0 of                    *)
(* src/api/fieldclimate.js and of src/unnamed/part_000.  A behaviour       *)
(* follows one server that answers one request after another.              *)
(***************************************************************************)
Routes == {"fieldclimate", "part_000"}

\* The longest time series the telemetry API returns in this model.
MaxReadings == 2

\* Entries of the time series: two complete readings, a reading with the
\* temperature only, a reading whose temperature is null, a reading with no
\* recognised field, and an entry that is null.
Reading(T, RH, Rs, u) ==
    [obj |-> TRUE, air_temperature |-> T, relative_humidity |-> RH,
     solar_radiation |-> Rs, wind_speed |-> u]
NullEntry ==
    [obj |-> FALSE, air_temperature |-> Undefined, relative_humidity |-> Undefined,
     solar_radiation |-> Undefined, wind_speed |-> Undefined]
Entries ==
    {Reading(Lit(30, 1), Lit(65, 1), Lit(250, 1), Lit(23, 10)),
     Reading(Lit(18, 1), Lit(80, 1), Lit(200, 1), Lit(0, 1)),
     Reading(Lit(24, 1), Undefined, Undefined, Undefined),
     Reading(Null, Lit(65, 1), Undefined, Undefined),
     Reading(Undefined, Undefined, Undefined, Undefined),
     NullEntry}

RECURSIVE SeqsUpTo(_, _)
SeqsUpTo(set, n) ==
    IF n = 0 THEN {<<>>}
    ELSE LET shorter == SeqsUpTo(set, n - 1)
         IN  shorter \cup {Append(q, x) : q \in shorter, x \in set}

\* What response.json() can hold: null, an object without a data member,
\* an object whose data member is not an array, an object with a time series.
StationDatas ==
    {[kind |-> k, data |-> <<>>] : k \in {"null", "nodata", "notarray"}}
    \cup {[kind |-> "array", data |-> q] : q \in SeqsUpTo(Entries, MaxReadings)}

\* Requests: the method, whether the request has a body, whether both keys
\* are in the environment of the server, the action and the stationId of the
\* body ("" when the body has none).
Requests ==
    [method : {"OPTIONS", "POST"}, body : BOOLEAN, keys : BOOLEAN,
     action : {"calculateET0", "desconhecida"}, stationId : {""} \cup StationIds]

\* The days on which a request can arrive: one day of every month.
RouteDays == {15, 46, 74, 105, 135, 166, 196, 227, 258, 288, 319, 349}

\* new Date().getMonth(): the month of the day of the year, from 0 (January)
MonthStarts == <<0, 31, 59, 90, 120, 151, 181, 212, 243, 273, 304, 334>>
getMonth(day) == Cardinality({i \in 2..12 : MonthStarts[i] < day})

\* The seasonal constant without the final else: let defaultET0 stays
\* unassigned from July to September.
defaultET0WithoutElse(month) ==
    IF month >= 9 \/ month <= 2 THEN Lit(45, 10)
    ELSE IF month >= 3 /\ month <= 5 THEN Lit(30, 10)
    ELSE Undefined

\* if (month >= 9 || month <= 2) defaultET0 = 4.5;
\* else if (month >= 3 && month <= 5) defaultET0 = 3.0; else defaultET0 = 2.5
defaultET0(month) ==
    IF month >= 9 \/ month <= 2 THEN Lit(45, 10)
    ELSE IF month >= 3 /\ month <= 5 THEN Lit(30, 10)
    ELSE Lit(25, 10)

\* The object the catch block of calculateET0 returns.
SeasonalEstimate(route_, month) ==
    [success |-> TRUE,
     data |-> [value |-> defaultET0(month),
               method |-> "estimativa_sazonal",
               parameters |->
                   [EmptyObject EXCEPT
                      !["mes_do_ano"] = Num((month + 1) * S),
                      !["regiao"] = Str(IF route_ = "fieldclimate"
                                        THEN "oeste_bahia" ELSE "sudeste_brasil"),
                      !["fonte"] = Str("media_sazonal")],
               data_quality |-> IF route_ = "fieldclimate"
                                THEN "baixa" ELSE "muito_baixa"]]

\* A block of selectBestMethod runs unless an earlier one threw.
Bloco2(p, info, day, l) == IF l.raised THEN l ELSE Metodo2(p, info, day, l)
Bloco3(p, l) == IF l.raised THEN l ELSE Metodo3(p, l)
Bloco4(p, l) == IF l.raised THEN l ELSE Metodo4(p, l)

\* selectBestMethod(params, stationInfo) as calculateET0 of
\* src/api/fieldclimate.js awaits it: the locals after the last block that
\* ran (raised: the call threw).
SelectorLocals(p, info, day) ==
    Bloco4(p, Bloco3(p, Bloco2(p, info, day,
                               Metodo1(p, info, day, InitialLocals))))

\* return { success: true, data: { value: et0Result.value, ...,
\*          data_quality: et0Result.quality } }
Computed(et0Result) ==
    [success |-> TRUE,
     data |-> [value |-> et0Result.value, method |-> et0Result.method,
               parameters |-> et0Result.parameters,
               data_quality |-> et0Result.quality]]

\* Where calculateET0 continues after an exception in its try block: the
\* catch block of src/api/fieldclimate.js first tries the Gist.
Caught == IF impl = "fieldclimate" THEN "gist" ELSE "seasonal"

\* The promise of calculateET0 fulfilled with an object.
Resolved(object) == [state |-> "resolved", success |-> object.success,
                     data |-> object.data]

\* res.status(500).json({ success: false, message })
ServerError == [status |-> 500, json |-> TRUE, success |-> FALSE, data |-> NoET0]

\* A request arrives at the route.
Arrive ==
    /\ impl \in Routes
    /\ pc \in {"idle", "closed"}
    /\ req' \in Requests
    /\ stationData' = NoData
    /\ outcome' = Pending
    /\ res' = NoResponse
    /\ params' = AllAbsent
    /\ result' = NoResult
    /\ pc' = "handler"
    /\ UNCHANGED <<impl, stationInfo, stationId, today, loc, last>>
    /\ UNCHANGED calls

\* The calendar advances between two requests.
NextMonth ==
    /\ impl \in Routes
    /\ pc \in {"idle", "closed"}
    /\ today' \in RouteDays \ {today}
    /\ UNCHANGED route
    /\ UNCHANGED <<impl, params, stationInfo, stationId, pc, loc, result, last>>
    /\ UNCHANGED calls

\* A needsApiKeys list that leaves calculateET0 out.
NeedsApiKeysButET0(action) ==
    \/ impl = "fieldclimate"
    \/ action \in {"testConnection", "getUserInfo", "getStations", "getStationInfo",
                   "getStationLastData"}

\* const needsApiKeys = [...]; if (needsApiKeys.includes(action)) of
\* src/unnamed/part_000; src/api/fieldclimate.js checks the keys for every action
NeedsApiKeys(action) ==
    \/ impl = "fieldclimate"
    \/ action \in {"testConnection", "getUserInfo", "getStations", "getStationInfo",
                   "getStationLastData", "calculateET0"}

\* handler(req, res) up to the call of calculateET0
HandlerEntry ==
    /\ pc = "handler"
    /\ IF req.method = "OPTIONS"
       THEN /\ res' = [status |-> 200, json |-> FALSE, success |-> FALSE,
                       data |-> NoET0]
            /\ pc' = "closed"
            /\ UNCHANGED stationId
       ELSE IF ~req.body
       THEN /\ res' = ServerError
            /\ pc' = "closed"
            /\ UNCHANGED stationId
       ELSE IF NeedsApiKeys(req.action) /\ ~req.keys
       THEN /\ res' = ServerError
            /\ pc' = "closed"
            /\ stationId' = req.stationId
       ELSE IF req.action = "calculateET0" /\ req.stationId # ""
       THEN /\ res' = res
            /\ pc' = "fetch"
            /\ stationId' = req.stationId
       ELSE /\ res' = ServerError
            /\ pc' = "closed"
            /\ stationId' = req.stationId
    /\ UNCHANGED <<impl, params, stationInfo, today, loc, result, last,
                   req, stationData, outcome>>
    /\ UNCHANGED calls

\* const stationData = await getStationLastData(stationId, 24, ...): the
\* request to the telemetry API fails, or the body of its answer is parsed.
Fetch ==
    /\ pc = "fetch"
    /\ \/ /\ stationData' \in StationDatas
          /\ pc' = "extract"
       \/ /\ stationData' = NoData
          /\ pc' = Caught
    /\ UNCHANGED <<impl, params, stationInfo, stationId, today, loc, result, last,
                   req, outcome, res>>
    /\ UNCHANGED calls

\* const params = FieldClimateAPI.extractMeteorologicalParameters(stationData)
Extract ==
    /\ pc = "extract"
    /\ LET extracted == extractMeteorologicalParameters(stationData)
       IN  IF extracted.threw
           THEN /\ pc' = Caught
                /\ UNCHANGED params
           ELSE /\ pc' = "select"
                /\ params' = extracted.val
    /\ UNCHANGED <<impl, stationInfo, stationId, today, loc, result, last, route>>
    /\ UNCHANGED calls

\* The selector is called and calculateET0 returns what it built from the
\* selector's result.
Select ==
    /\ pc = "select"
    /\ IF impl = "fieldclimate"
       THEN LET locals == SelectorLocals(params, ResolveStation(stationId), today)
            IN  IF locals.raised
                THEN /\ pc' = Caught
                     /\ UNCHANGED <<result, outcome>>
                ELSE /\ result' = ReturnResult(locals)
                     /\ outcome' = Resolved(Computed(result'))
                     /\ pc' = "respond"
       ELSE /\ result' = selectET0CalculationMethod(FlatParams(params))
            /\ outcome' = Resolved(Computed(result'))
            /\ pc' = "respond"
    /\ UNCHANGED <<impl, params, stationInfo, stationId, today, loc, last,
                   req, stationData, res>>
    /\ UNCHANGED calls

\* The inner try of the catch block of src/api/fieldclimate.js:
\* ET0Calculator.fetchET0FromGist is not a function, the TypeError is caught.
GistFallback ==
    /\ pc = "gist"
    /\ pc' = "seasonal"
    /\ UNCHANGED <<impl, params, stationInfo, stationId, today, loc, result, last>>
    /\ UNCHANGED route
    /\ UNCHANGED calls

\* The seasonal estimate of the catch block.
SeasonalFallback ==
    /\ pc = "seasonal"
    /\ outcome' = Resolved(SeasonalEstimate(impl, getMonth(today)))
    /\ pc' = "respond"
    /\ UNCHANGED <<impl, params, stationInfo, stationId, today, loc, result, last,
                   req, stationData, res>>
    /\ UNCHANGED calls

\* result = await calculateET0(...); res.status(200).json(result), or the
\* catch block of the handler if the promise was rejected
Respond ==
    /\ pc = "respond"
    /\ res' = IF outcome.state = "resolved"
              THEN [status |-> 200, json |-> TRUE, success |-> outcome.success,
                    data |-> outcome.data]
              ELSE ServerError
    /\ pc' = "closed"
    /\ UNCHANGED <<impl, params, stationInfo, stationId, today, loc, result, last,
                   req, stationData, outcome>>
    /\ UNCHANGED calls

RouteInit ==
    /\ impl \in Routes
    /\ today \in RouteDays
    /\ params = AllAbsent
    /\ stationInfo = MissingStation
    /\ stationId = ""
    /\ pc = "idle"
    /\ loc = InitialLocals
    /\ result = NoResult
    /\ last = NoResult
    /\ req = NoRequest
    /\ stationData = NoData
    /\ outcome = Pending
    /\ res = NoResponse
    /\ sent = 0
    /\ upstream = <<>>
    /\ ret = NoCall

RouteNext ==
    \/ Arrive
    \/ NextMonth
    \/ HandlerEntry
    \/ Fetch
    \/ Extract
    \/ Select
    \/ GistFallback
    \/ SeasonalFallback
    \/ Respond

RouteSpec == RouteInit /\ [][RouteNext]_vars

(***************************************************************************)
(* Properties of the API route.                                            *)
(***************************************************************************)
\* The request is one that the handler passes on to calculateET0.
Accepted ==
    /\ req.method = "POST" /\ req.body /\ req.keys
    /\ req.action = "calculateET0" /\ req.stationId # ""

\* calculateET0 has left its try block, normally or through the catch block.
TryBlockLeft == Accepted /\ pc \in {"gist", "seasonal", "respond", "closed"}

\* What went wrong in the try block of calculateET0.
FetchThrew == TryBlockLeft /\ stationData = NoData
ExtractionThrew ==
    TryBlockLeft /\ stationData # NoData
                 /\ extractMeteorologicalParameters(stationData).threw
SelectorThrew ==
    /\ TryBlockLeft /\ stationData # NoData /\ impl = "fieldclimate"
    /\ ~extractMeteorologicalParameters(stationData).threw
    /\ SelectorLocals(params, ResolveStation(stationId), today).raised
TryBlockThrew == FetchThrew \/ ExtractionThrew \/ SelectorThrew

\* C13: calculateET0 never rejects.  Whenever the fetch of the telemetry, the
\* extraction of the parameters or the call of the selector throws,
\* calculateET0 resolves with success = true and a numeric ET0 value, and the
\* handler answers every calculateET0 request that has a body, the keys and
\* a stationId with HTTP 200.
C13_CalculateET0NeverRejects ==
    /\ outcome.state # "rejected"
    /\ (TryBlockThrew /\ pc \in {"respond", "closed"})
          => /\ outcome.state = "resolved"
             /\ outcome.success
             /\ IsNum(outcome.data.value)
    /\ (Accepted /\ pc = "closed")
          => /\ res.status = 200
             /\ res.json /\ res.success
             /\ res.data = outcome.data

\* The fetch of the telemetry failed in a July, and the handler of
\* src/api/fieldclimate.js answered 200 with the seasonal estimate.
C13_Witness ==
    /\ impl = "fieldclimate" /\ pc = "closed" /\ FetchThrew
    /\ getMonth(today) = 6
    /\ res.status = 200 /\ res.success
    /\ res.data.value = Lit(25, 10)

\* calculateET0 has resolved through the seasonal fallback of its catch block.
SeasonalResult == TryBlockThrew /\ pc \in {"respond", "closed"}

\* C14: every result that calculateET0 produces through the seasonal fallback
\* carries the method 'estimativa_sazonal' and the quality 'muito_baixa'.
C14_SeasonalResultIsGradedVeryLow ==
    SeasonalResult => /\ outcome.data.method = "estimativa_sazonal"
                      /\ outcome.data.data_quality = "muito_baixa"

\* The calendar month (1 to 12) in which the request is answered.
CalendarMonth == getMonth(today) + 1

\* The constant of the band of a calendar month: September to February,
\* March to May, the remaining months.
BandOf(calendarMonth) ==
    IF calendarMonth >= 9 \/ calendarMonth <= 2 THEN Lit(45, 10)
    ELSE IF calendarMonth >= 3 /\ calendarMonth <= 5 THEN Lit(30, 10)
    ELSE Lit(25, 10)

\* C15: the seasonal fallback gives 4.5 mm/day from September to February,
\* 3.0 mm/day from March to May and 2.5 mm/day in the remaining months, and
\* the month it reports is the calendar month (1 to 12) that selected the band.
C15_SeasonalBandsByCalendarMonth ==
    SeasonalResult => /\ outcome.data.value = BandOf(CalendarMonth)
                      /\ outcome.data.parameters["mes_do_ano"] = Num(CalendarMonth * S)

(***************************************************************************)
(* The grading of the data quality.                                        *)
(***************************************************************************)
\* The grade of a number of used parameters: 4 or more, 2 or 3, 1, none.
GradeOf(paramCount) ==
    IF paramCount >= 4 THEN "alta"
    ELSE IF paramCount \in {2, 3} THEN "media"
    ELSE IF paramCount = 1 THEN "baixa"
    ELSE "muito_baixa"

\* C16: assessDataQuality grades by the number of parameters actually used:
\* 4 or more gives 'alta', 2 or 3 gives 'media', exactly 1 gives 'baixa' and
\* 0 gives 'muito_baixa'.
C16_QualityGradedByParameterCount ==
    (Returned /\ impl \in Flat)
        => result.quality = GradeOf(KeyCount(result.parameters))

(***************************************************************************)
(* Properties of the extraction of the parameters.                         *)
(***************************************************************************)
\* The extractor has returned the parameters of the fetched time series.
ExtractorReturned ==
    /\ pc \in {"select", "respond", "closed"}
    /\ IsSeries(stationData)
    /\ ~extractMeteorologicalParameters(stationData).threw

\* The values that the readings of the time series carry for a quantity.
Carried(f) ==
    SelectSeq([i \in 1..Len(stationData.data) |-> stationData.data[i][f]], Present)

\* The mean, the greatest and the least of a list of numbers; null for the
\* empty list.
RECURSIVE Total(_)
Total(list) == IF list = <<>> THEN 0 ELSE list[1].v + Total(Tail(list))
Mean(list) ==
    IF list = <<>> THEN Null ELSE Num(FxDiv(Total(list), Len(list) * S))
Greatest(list) ==
    IF list = <<>> THEN Null
    ELSE Num(CHOOSE x \in {list[i].v : i \in 1..Len(list)} :
                \A i \in 1..Len(list) : x >= list[i].v)
Least(list) ==
    IF list = <<>> THEN Null
    ELSE Num(CHOOSE x \in {list[i].v : i \in 1..Len(list)} :
                \A i \in 1..Len(list) : x <= list[i].v)

\* C17: each aggregate that extractMeteorologicalParameters returns is
\* non-null exactly if at least one reading carries a value for its
\* quantity, and it is then the mean of exactly those values (for the
\* temperature also their maximum and their minimum).
C17_AggregatesOfCarriedValues ==
    ExtractorReturned =>
        /\ params.temperatura_media = Mean(Carried("air_temperature"))
        /\ params.temperatura_maxima = Greatest(Carried("air_temperature"))
        /\ params.temperatura_minima = Least(Carried("air_temperature"))
        /\ params.umidade_relativa_med = Mean(Carried("relative_humidity"))
        /\ params.radiacao_solar = Mean(Carried("solar_radiation"))
        /\ params.velocidade_vento_2m = Mean(Carried("wind_speed"))

\* The fetched body is structurally malformed: null, without a data member,
\* or with a data member that is no array.
Malformed == stationData.kind \in {"null", "nodata", "notarray"}

\* The meteorological fields of the aggregate.
MeteorologicalFields ==
    {"temperatura_media", "temperatura_maxima", "temperatura_minima",
     "umidade_relativa_med", "radiacao_solar", "velocidade_vento_2m", "chuva"}

\* C18: for a structurally malformed input extractMeteorologicalParameters
\* does not raise and returns an aggregate whose meteorological fields are
\* all null.
C18_MalformedInputGivesAllAbsent ==
    Malformed =>
        /\ ~extractMeteorologicalParameters(stationData).threw
        /\ pc \notin {"gist", "seasonal"}
        /\ pc \in {"select", "respond", "closed"}
              => \A f \in MeteorologicalFields : params[f] = Null

\* The telemetry API answered with a data member that is no array, and the
\* extractor returned the aggregate with every field null to calculateET0.
C18_Witness ==
    /\ stationData.kind = "notarray" /\ pc = "select"
    /\ extractMeteorologicalParameters(stationData) = Ret(AllAbsent)
    /\ params = AllAbsent

(***************************************************************************)
(* The sums of the extractor in IEEE 754 binary64, the arithmetic of the   *)
(* JavaScript numbers that a + b and a / n of                              *)
(* extractMeteorologicalParameters work on.  A positive number is a record *)
(* [e, m]: m is its significand of 53 bits, most significant bit first and *)
(* equal to 1, and the number is m * 2^e.  Every result is rounded to the  *)
(* nearest number of that form, ties to the even significand.              *)
(***************************************************************************)
Zeros(n) == [i \in 1..n |-> 0]

RECURSIVE StripZeros(_)
StripZeros(bits) ==
    IF bits # <<>> /\ bits[1] = 0 THEN StripZeros(Tail(bits)) ELSE bits

\* The carry into bit i of x + y for x and y of the same length: some lower
\* bit generates a carry and every bit between it and i passes it on.
CarryInto(x, y, i) ==
    \E j \in (i + 1)..Len(x) :
        /\ x[j] = 1 /\ y[j] = 1
        /\ \A k \in (i + 1)..(j - 1) : x[k] + y[k] = 1

\* The bits of x + y for x and y of the same length: one bit longer than x.
AddBits(x, y) ==
    [i \in 1..(Len(x) + 1) |->
        IF i = 1 THEN (IF CarryInto(x, y, 0) THEN 1 ELSE 0)
        ELSE (x[i - 1] + y[i - 1] + (IF CarryInto(x, y, i - 1) THEN 1 ELSE 0)) % 2]

\* The number that the bits lo..hi of D spell, modulo n.
RECURSIVE BitsMod(_, _, _, _)
BitsMod(D, lo, hi, n) ==
    IF lo > hi THEN 0
    ELSE IF lo = hi THEN D[lo] % n
    ELSE LET mid == (lo + hi) \div 2
         IN  (BitsMod(D, lo, mid, n) * (2^(hi - mid) % n) + BitsMod(D, mid + 1, hi, n)) % n

\* The bits of the quotient of D by n, and the remainder, by long division:
\* each bit of the quotient comes from the remainder of the bits before it.
DivBits(D, n) ==
    [q |-> [i \in 1..Len(D) |-> (2 * BitsMod(D, 1, i - 1, n) + D[i]) \div n],
     r |-> BitsMod(D, 1, Len(D), n)]

\* The binary64 number nearest to bits * 2^e (bits starts with 1; inexact:
\* the exact value lies above bits * 2^e and below the next one).
RoundToNearestEven(bits, inexact, e) ==
    LET L == Len(bits)
        k == L - 53
        keep == SubSeq(bits, 1, 53)
        up == /\ bits[54] = 1
              /\ \/ inexact
                 \/ \E i \in 55..L : bits[i] = 1
                 \/ keep[53] = 1
        next == StripZeros(AddBits(keep, Zeros(52) \o <<1>>))
    IN  IF L <= 53 THEN [e |-> e - (53 - L), m |-> bits \o Zeros(53 - L)]
        ELSE IF ~up THEN [e |-> e + k, m |-> keep]
        ELSE IF Len(next) = 54 THEN [e |-> e + k + 1, m |-> SubSeq(next, 1, 53)]
        ELSE [e |-> e + k, m |-> next]

\* a + b
Float64Add(a, b) ==
    LET lo == IF a.e <= b.e THEN a.e ELSE b.e
        x == a.m \o Zeros(a.e - lo)
        y == b.m \o Zeros(b.e - lo)
        n == IF Len(x) >= Len(y) THEN Len(x) ELSE Len(y)
        sum == AddBits(Zeros(n - Len(x)) \o x, Zeros(n - Len(y)) \o y)
    IN  RoundToNearestEven(StripZeros(sum), FALSE, lo)

\* a / n for a list length n: eight more bits of the quotient than the
\* significand holds decide the rounding.
Float64DivideBy(a, n) ==
    LET d == DivBits(a.m \o Zeros(8), n)
    IN  RoundToNearestEven(StripZeros(d.q), d.r # 0, a.e - 8)

\* a < b
Float64Less(a, b) ==
    \/ a.e < b.e
    \/ /\ a.e = b.e
       /\ \E i \in 1..53 : /\ a.m[i] < b.m[i]
                           /\ \A j \in 1..(i - 1) : a.m[j] = b.m[j]

\* The four bits of a hexadecimal digit.
HexBits(h) == <<h \div 8, (h \div 4) % 2, (h \div 2) % 2, h % 2>>
RECURSIVE Significand(_)
Significand(digits) ==
    IF digits = <<>> THEN <<>>
    ELSE HexBits(digits[1]) \o Significand(Tail(digits))

\* The number 0x1.d1...d13 p+x, as Number.prototype.toString(16) and the
\* literals of the telemetry spell it.
Binary64(digits, x) == [e |-> x - 52, m |-> <<1>> \o Significand(digits)]

\* list.reduce((a, b) => a + b) in binary64
RECURSIVE ReduceSum64(_)
ReduceSum64(list) ==
    IF Len(list) = 1 THEN list[1]
    ELSE Float64Add(ReduceSum64(SubSeq(list, 1, Len(list) - 1)), list[Len(list)])

MeanOf64(list) == Float64DivideBy(ReduceSum64(list), Len(list))

\* Math.max(...list) and Math.min(...list)
MaxOf64(list) ==
    CHOOSE x \in {list[i] : i \in 1..Len(list)} :
        \A i \in 1..Len(list) : ~Float64Less(x, list[i])
MinOf64(list) ==
    CHOOSE x \in {list[i] : i \in 1..Len(list)} :
        \A i \in 1..Len(list) : ~Float64Less(list[i], x)

\* The values of a field over the entries: every entry of this part of the
\* model carries the four quantities.
Column(entries, f) == [i \in 1..Len(entries) |-> entries[i][f]]

\* extractMeteorologicalParameters(data) for a time series of binary64 numbers
extractMeteorologicalParameters64(data) ==
    IF Len(data.data) = 0 THEN AllAbsent
    ELSE [AllAbsent EXCEPT
            !.temperatura_media = MeanOf64(Column(data.data, "air_temperature")),
            !.temperatura_maxima = MaxOf64(Column(data.data, "air_temperature")),
            !.temperatura_minima = MinOf64(Column(data.data, "air_temperature")),
            !.umidade_relativa_med = MeanOf64(Column(data.data, "relative_humidity")),
            !.radiacao_solar = MeanOf64(Column(data.data, "solar_radiation")),
            !.velocidade_vento_2m = MeanOf64(Column(data.data, "wind_speed"))]

\* The readings of the time series, as the numbers their JSON literals
\* denote (air temperature, relative humidity, solar radiation, wind speed):
\*   20.1 = 0x1.419999999999ap+4, 65.0 = 0x1.0400000000000p+6, 250.0 = 0x1.f400000000000p+7, 2.3 = 0x1.2666666666666p+1
\*   20.2 = 0x1.4333333333333p+4, 80.0 = 0x1.4000000000000p+6, 200.0 = 0x1.9000000000000p+7, 0.1 = 0x1.999999999999ap-4
\*   20.3 = 0x1.44ccccccccccdp+4, 70.5 = 0x1.1a00000000000p+6, 225.5 = 0x1.c300000000000p+7, 1.7 = 0x1.b333333333333p+0
\*   0.1 = 0x1.999999999999ap-4, 65.0, 250.0, 2.3 (a reading at the freezing point)
Entries64 ==
    {Reading(Binary64(<<4, 1, 9, 9, 9, 9, 9, 9, 9, 9, 9, 9, 10>>, 4),
             Binary64(<<0, 4, 0, 0, 0, 0, 0, 0, 0, 0, 0, 0, 0>>, 6),
             Binary64(<<15, 4, 0, 0, 0, 0, 0, 0, 0, 0, 0, 0, 0>>, 7),
             Binary64(<<2, 6, 6, 6, 6, 6, 6, 6, 6, 6, 6, 6, 6>>, 1)),
     Reading(Binary64(<<4, 3, 3, 3, 3, 3, 3, 3, 3, 3, 3, 3, 3>>, 4),
             Binary64(<<4, 0, 0, 0, 0, 0, 0, 0, 0, 0, 0, 0, 0>>, 6),
             Binary64(<<9, 0, 0, 0, 0, 0, 0, 0, 0, 0, 0, 0, 0>>, 7),
             Binary64(<<9, 9, 9, 9, 9, 9, 9, 9, 9, 9, 9, 9, 10>>, -4)),
     Reading(Binary64(<<4, 4, 12, 12, 12, 12, 12, 12, 12, 12, 12, 12, 13>>, 4),
             Binary64(<<1, 10, 0, 0, 0, 0, 0, 0, 0, 0, 0, 0, 0>>, 6),
             Binary64(<<12, 3, 0, 0, 0, 0, 0, 0, 0, 0, 0, 0, 0>>, 7),
             Binary64(<<11, 3, 3, 3, 3, 3, 3, 3, 3, 3, 3, 3, 3>>, 0)),
     Reading(Binary64(<<9, 9, 9, 9, 9, 9, 9, 9, 9, 9, 9, 9, 10>>, -4),
             Binary64(<<0, 4, 0, 0, 0, 0, 0, 0, 0, 0, 0, 0, 0>>, 6),
             Binary64(<<15, 4, 0, 0, 0, 0, 0, 0, 0, 0, 0, 0, 0>>, 7),
             Binary64(<<2, 6, 6, 6, 6, 6, 6, 6, 6, 6, 6, 6, 6>>, 1))}

\* The longest time series of binary64 readings.
MaxSeries == 3

\* The time series with the same entries in another order.
Reorderings(entries) ==
    {[i \in 1..Len(entries) |-> entries[f[i]]] :
        f \in {g \in [1..Len(entries) -> 1..Len(entries)] :
                  \A i, j \in 1..Len(entries) : g[i] = g[j] => i = j}}

(***************************************************************************)
(* A caller that extracts the parameters of a time series, and extracts    *)
(* them again after the telemetry API has delivered the same readings in   *)
(* another order.                                                          *)
(***************************************************************************)
SeriesInit ==
    /\ impl = "fieldclimate"
    /\ stationData \in {[kind |-> "array", data |-> q] :
                            q \in SeqsUpTo(Entries64, MaxSeries)}
    /\ params = AllAbsent
    /\ last = AllAbsent
    /\ pc = "fetched"
    /\ stationInfo = MissingStation
    /\ stationId = ""
    /\ today \in {15}
    /\ loc = InitialLocals
    /\ result = NoResult
    /\ req = NoRequest
    /\ outcome = Pending
    /\ res = NoResponse
    /\ sent = 0
    /\ upstream = <<>>
    /\ ret = NoCall

\* const params = FieldClimateAPI.extractMeteorologicalParameters(stationData)
Extract64 ==
    /\ pc \in {"fetched", "reordered"}
    /\ params' = extractMeteorologicalParameters64(stationData)
    /\ pc' = IF pc = "fetched" THEN "extracted" ELSE "extracted again"
    /\ UNCHANGED <<impl, stationInfo, stationId, today, loc, result, last,
                   req, stationData, outcome, res>>
    /\ UNCHANGED calls

\* The same readings arrive in another order.
Reorder ==
    /\ pc = "extracted"
    /\ \E q \in Reorderings(stationData.data) :
          stationData' = [stationData EXCEPT !.data = q]
    /\ last' = params
    /\ pc' = "reordered"
    /\ UNCHANGED <<impl, params, stationInfo, stationId, today, loc, result,
                   req, outcome, res>>
    /\ UNCHANGED calls

SeriesNext == Extract64 \/ Reorder

SeriesSpec == SeriesInit /\ [][SeriesNext]_vars

\* C19: extractMeteorologicalParameters is insensitive to the order of the
\* readings: every permutation of a time series yields the same aggregated
\* parameters.
C19_OrderOfReadingsIrrelevant ==
    pc = "extracted again" => params = last

(***************************************************************************)
(* The temperature-only fallback of the selectors.                         *)
(***************************************************************************)
\* Both extremes of the temperature are available.
BothExtremes == Present(params.temperatura_maxima) /\ Present(params.temperatura_minima)

\* The selector returned from its temperature-only fallback: MÉTODO 4 of
\* selectBestMethod, or one of the last three branches of
\* selectET0CalculationMethod of src/unnamed/part_000.
FallbackReturned ==
    /\ Returned
    /\ \/ impl \in Chained /\ result.method = "estimativa_temperatura"
       \/ /\ impl = "part_000"
          /\ result.method \in {"hargreaves_apenas_temperatura",
                                "estimativa_temperatura_media", "estimativa_padrao"}

\* The temperature MÉTODO 4 reports as the one it estimated from.
EstimatedFrom == result.parameters["temperatura_estimada"]

\* C20: in the temperature-only fallback the estimate is computed from the
\* average of the maximum and the minimum when both are present, from the
\* mean temperature when they are not both present, and from the built-in
\* default only when no temperature is available.
C20_FallbackUsesAvailableTemperature ==
    FallbackReturned =>
        /\ (impl \in Chained /\ BothExtremes)
              => EstimatedFrom = ToFixed(JMulQ(JAdd(params.temperatura_maxima,
                                                    params.temperatura_minima), 1, 2), 1)
        /\ (impl \in Chained /\ ~BothExtremes /\ Present(params.temperatura_media))
              => EstimatedFrom = ToFixed(params.temperatura_media, 1)
        /\ (impl \in Chained /\ EstimatedFrom = Lit(25, 1))
              => \/ ~BothExtremes /\ ~Present(params.temperatura_media)
                 \/ BothExtremes /\ JAdd(params.temperatura_maxima,
                                         params.temperatura_minima) = Lit(50, 1)
                 \/ ~BothExtremes /\ params.temperatura_media = Lit(25, 1)
        /\ (impl = "part_000" /\ BothExtremes)
              => result.method = "hargreaves_apenas_temperatura"
        /\ (impl = "part_000" /\ ~BothExtremes /\ Present(params.temperatura_media))
              => /\ result.method = "estimativa_temperatura_media"
                 /\ result.value =
                       JMax(Num(0), ToFixed(estimateET0FromTemperature(
                                                params.temperatura_media), 1))
        /\ (impl = "part_000" /\ result.method = "estimativa_padrao")
              => ~BothExtremes /\ ~Present(params.temperatura_media)

(***************************************************************************)
(* calculateExtraterrestrialRadiation called on its own, at latitudes from *)
(* pole to pole and beyond, on days around the year.                       *)
(***************************************************************************)
\* Latitudes in degrees: valid ones, the poles, and values past the poles.
Latitudes == {Lit(-135, 1), Lit(-90, 1), Lit(-80, 1), Lit(-67, 1), Lit(-45, 1),
              Lit(-1215, 100), Lit(0, 1), Lit(45, 1), Lit(67, 1), Lit(80, 1),
              Lit(90, 1), Lit(100, 1), Lit(135, 1)}
\* Days of the year: near the solstices, near the equinoxes, and between.
RadiationDays == {1, 15, 81, 120, 172, 264, 300, 355}

\* The station record that carries a latitude.
At(latitude) == [obj |-> TRUE, latitude |-> latitude, altitude |-> Lit(400, 1),
                 julianDay |-> Undefined]

RadiationInit ==
    /\ impl \in Chained
    /\ stationInfo \in {At(l) : l \in Latitudes}
    /\ today \in RadiationDays
    /\ pc = "idle"
    /\ params = AllAbsent
    /\ stationId = ""
    /\ loc = InitialLocals
    /\ result = NoResult
    /\ last = NoResult
    /\ req = NoRequest
    /\ stationData = NoData
    /\ outcome = Pending
    /\ res = NoResponse
    /\ sent = 0
    /\ upstream = <<>>
    /\ ret = NoCall

\* ET0Calculator.calculateExtraterrestrialRadiation(latitude, julianDay): the
\* body has no throw statement and calls only Math functions, which return
\* NaN outside their domain; the call returns whatever Ra evaluates to.
CallRadiation ==
    /\ pc = "idle"
    /\ ret' = Ret(calculateExtraterrestrialRadiation(stationInfo.latitude,
                                                     Num(today * S)))
    /\ pc' = "returned"
    /\ UNCHANGED <<impl, params, stationInfo, stationId, today, loc, result, last,
                   route, sent, upstream>>

\* The caller takes up another day of the year.
AnotherDay ==
    /\ pc = "returned"
    /\ today' \in RadiationDays \ {today}
    /\ ret' = NoCall
    /\ pc' = "idle"
    /\ UNCHANGED <<impl, params, stationInfo, stationId, loc, result, last,
                   route, sent, upstream>>

RadiationNext == CallRadiation \/ AnotherDay

RadiationSpec == RadiationInit /\ [][RadiationNext]_vars

\* |latitude| >= 90 degrees
InvalidLatitude(latitude) == latitude.v >= 90 * S \/ latitude.v <= -90 * S

\* C21: calculateExtraterrestrialRadiation rejects a latitude of absolute
\* value 90 degrees or more with an error; it never returns NaN for such a
\* latitude.
C21_InvalidLatitudeIsRejected ==
    (pc = "returned" /\ InvalidLatitude(stationInfo.latitude))
        => (ret.threw /\ ret.val.t # "nan")

(***************************************************************************)
(* ET0Calculator.processHistoricalET0 (src/api/et0-calculator.js), called  *)
(* on its own with a series of dated entries.                              *)
(***************************************************************************)
\* Longest historical series.
MaxHistory == 2

\* An entry of historicalData.data.  Its date is the list of the parts that
\* the letter T separates ("2024-01-01T10:00" is <<"2024-01-01", "10:00">>);
\* an entry without a date has the empty list.
Dated(date, T, RH, Rs, u) ==
    [obj |-> TRUE, date |-> date, air_temperature |-> T,
     relative_humidity |-> RH, solar_radiation |-> Rs, wind_speed |-> u]
HistoryEntries ==
    {Dated(<<"2024-01-01", "10:00">>, Lit(30, 1), Lit(65, 1), Lit(250, 1), Lit(23, 10)),
     Dated(<<"2024-01-01", "22:00">>, Lit(18, 1), Undefined, Undefined, Undefined),
     Dated(<<"2024-01-02">>, Lit(18, 1), Lit(65, 1), Undefined, Undefined),
     Dated(<<"2024-01-02", "10:00">>, Undefined, Lit(65, 1), Lit(250, 1), Undefined),
     Dated(<<>>, Lit(30, 1), Undefined, Undefined, Undefined),
     Dated(<<"2024-01-03", "10:00">>, Null, Undefined, Undefined, Undefined),
     [Dated(<<>>, Undefined, Undefined, Undefined, Undefined) EXCEPT !.obj = FALSE]}
Histories ==
    {[kind |-> k, data |-> <<>>] : k \in {"null", "nodata", "notarray"}}
    \cup {[kind |-> "array", data |-> q] : q \in SeqsUpTo(HistoryEntries, MaxHistory)}

\* entry.date.split('T')[0]
DateOf(entry) == Head(entry.date)

\* The keys of dailyData in the order Object.entries lists them: the dates
\* in the order of their first entry.
RECURSIVE DatesOf(_)
DatesOf(entries) ==
    IF entries = <<>> THEN <<>>
    ELSE LET before == DatesOf(SubSeq(entries, 1, Len(entries) - 1))
             date == DateOf(entries[Len(entries)])
         IN  IF \E i \in 1..Len(before) : before[i] = date THEN before
             ELSE Append(before, date)

\* list.length > 0 ? list.reduce((a, b) => a + b) / list.length : null
MeanOrNull(list) == IF Len(list) > 0 THEN MeanOf(list) ELSE Null

\* const params = { temperatura_maxima: Tmax, ... } of one day
DailyParams(day) ==
    LET temps == Collected(day, "air_temperature")
    IN  [temperatura_media |-> Undefined,
         temperatura_maxima |-> MaxOf(temps),
         temperatura_minima |-> MinOf(temps),
         umidade_relativa_max |-> Undefined,
         umidade_relativa_min |-> Undefined,
         umidade_relativa_med |-> MeanOrNull(Collected(day, "relative_humidity")),
         radiacao_solar |-> MeanOrNull(Collected(day, "solar_radiation")),
         velocidade_vento_2m |-> MeanOrNull(Collected(day, "wind_speed")),
         pressao_atmosferica |-> Undefined,
         chuva |-> Undefined]

\* x?.toFixed(0) || 'N/A'
ToFixedOrNA(x) == IF Present(x) THEN ToFixed(x, 0) ELSE Str("N/A")

\* et0Series.push({ date, et0: result.value, method, quality, parameters })
SeriesEntry(date, p, r) ==
    [date |-> date, et0 |-> r.value, method |-> r.method, quality |-> r.quality,
     parameters |-> [Tmax |-> ToFixed(p.temperatura_maxima, 1),
                     Tmin |-> ToFixed(p.temperatura_minima, 1),
                     RHmean |-> ToFixedOrNA(p.umidade_relativa_med),
                     Rs |-> ToFixedOrNA(p.radiacao_solar)]]

\* processHistoricalET0(historicalData, stationInfo): reading the date of an
\* entry that is null raises a TypeError, and so does a selectBestMethod that
\* throws.
processHistoricalET0(historicalData, info, today_) ==
    IF ~IsSeries(historicalData) THEN Ret(<<>>)
    ELSE IF \E i \in 1..Len(historicalData.data) : ~historicalData.data[i].obj
    THEN Thrown
    ELSE LET dated == SelectSeq(historicalData.data, LAMBDA e : e.date # <<>>)
             dates == DatesOf(dated)
             Day(i) == SelectSeq(dated, LAMBDA e : DateOf(e) = dates[i])
             kept == SelectSeq([i \in 1..Len(dates) |-> i],
                               LAMBDA i : Len(Collected(Day(i), "air_temperature")) > 0)
         IN  IF \E k \in 1..Len(kept) :
                    SelectorLocals(DailyParams(Day(kept[k])), info, today_).raised
             THEN Thrown
             ELSE Ret([k \in 1..Len(kept) |->
                         SeriesEntry(dates[kept[k]], DailyParams(Day(kept[k])),
                                     ReturnResult(SelectorLocals(
                                         DailyParams(Day(kept[k])), info, today_)))])

HistoryInit ==
    /\ impl = "et0-calculator"
    /\ stationData \in Histories
    /\ stationInfo \in StationInfos
    /\ today \in {15}
    /\ pc = "idle"
    /\ params = AllAbsent
    /\ stationId = ""
    /\ loc = InitialLocals
    /\ result = NoResult
    /\ last = NoResult
    /\ req = NoRequest
    /\ outcome = Pending
    /\ res = NoResponse
    /\ sent = 0
    /\ upstream = <<>>
    /\ ret = NoCall

\* ET0Calculator.processHistoricalET0(historicalData, stationInfo)
ProcessHistory ==
    /\ pc = "idle"
    /\ ret' = processHistoricalET0(stationData, stationInfo, today)
    /\ pc' = "returned"
    /\ UNCHANGED <<impl, params, stationInfo, stationId, today, loc, result, last,
                   req, stationData, outcome, res, sent, upstream>>

\* The caller takes up the series of another station.
AnotherStation ==
    /\ pc = "returned"
    /\ stationInfo' \in StationInfos \ {stationInfo}
    /\ ret' = NoCall
    /\ pc' = "idle"
    /\ UNCHANGED <<impl, params, stationId, today, loc, result, last,
                   req, stationData, outcome, res, sent, upstream>>

HistoryNext == ProcessHistory \/ AnotherStation

HistorySpec == HistoryInit /\ [][HistoryNext]_vars

\* The entries of the series that are objects and carry a date.
DatedEntries == SelectSeq(stationData.data, LAMBDA e : e.obj /\ e.date # <<>>)
\* The readings (numbers) of quantity f on a date.
ReadingsOn(date, f) ==
    SelectSeq([i \in 1..Len(DatedEntries) |-> DatedEntries[i]],
              LAMBDA e : DateOf(e) = date /\ e[f].t = "num")
\* The dates that have at least one temperature reading.
DatesWithTemperature ==
    {DateOf(DatedEntries[i]) : i \in {j \in 1..Len(DatedEntries) :
                                        DatedEntries[j].air_temperature.t = "num"}}
\* The aggregated parameters of a date: extremes of the temperature readings
\* and means of the other readings.
AggregatedOn(date) ==
    LET Values(f) == [i \in 1..Len(ReadingsOn(date, f)) |-> ReadingsOn(date, f)[i][f]]
    IN  [temperatura_media |-> Undefined,
         temperatura_maxima |-> MaxOf(Values("air_temperature")),
         temperatura_minima |-> MinOf(Values("air_temperature")),
         umidade_relativa_max |-> Undefined,
         umidade_relativa_min |-> Undefined,
         umidade_relativa_med |-> MeanOrNull(Values("relative_humidity")),
         radiacao_solar |-> MeanOrNull(Values("solar_radiation")),
         velocidade_vento_2m |-> MeanOrNull(Values("wind_speed")),
         pressao_atmosferica |-> Undefined,
         chuva |-> Undefined]
\* Every entry of a well-formed series is an object.
WellFormedSeries ==
    /\ stationData.kind = "array"
    /\ \A i \in 1..Len(stationData.data) : stationData.data[i].obj

\* C22: processHistoricalET0 returns one entry for each distinct date that
\* has at least one temperature reading, none for other dates or for entries
\* without a date, the empty list for malformed input, and each entry carries
\* the value, method and quality that selectBestMethod returns for the
\* aggregated parameters of its date.
C22_HistoryRepeatsSinglePoint ==
    pc = "returned" =>
       /\ stationData.kind # "array" => ret = Ret(<<>>)
       /\ WellFormedSeries =>
            /\ ~ret.threw
            /\ {ret.val[k].date : k \in 1..Len(ret.val)} = DatesWithTemperature
            /\ \A j, k \in 1..Len(ret.val) : ret.val[j].date = ret.val[k].date => j = k
            /\ \A k \in 1..Len(ret.val) :
                  LET r == ReturnResult(SelectorLocals(AggregatedOn(ret.val[k].date),
                                                       stationInfo, today))
                  IN  /\ ret.val[k].et0 = r.value
                      /\ ret.val[k].method = r.method
                      /\ ret.val[k].quality = r.quality

\* The try block of MÉTODO 2 raises: stationInfo.latitude is read from a
\* stationInfo that is no object (src/api/et0-calculator.js), or toFixed is
\* called on a latitude that is missing (src/api/fieldclimate.js).
HargreavesSamaniRaises ==
    IF impl = "et0-calculator" THEN ~stationInfo.obj
    ELSE ~Present(ResolveStation(stationId).latitude)

\* C24: the Priestley-Taylor stage supplies the result only when the
\* Hargreaves-Samani stage did not: on every input on which the
\* Hargreaves-Samani computation completes without raising, the selector
\* never returns the method priestley_taylor.
C24_PriestleyTaylorOnlyAfterHargreavesFailed ==
    (impl \in Chained /\ pc = "done" /\ ~HargreavesSamaniRaises)
        => result.method # "priestley_taylor"

\* The Priestley-Taylor stage has run after the Hargreaves-Samani block raised,
\* and the call returned its result.
C24_Witness ==
    /\ impl \in Chained
    /\ pc = "done"
    /\ HargreavesSamaniRaises
    /\ result.method = "priestley_taylor"

(***************************************************************************)
(* JSON documents of the telemetry API and their sanitization              *)
(* (src/unnamed/part_000, sanitizeData).  A document is a record: k is its *)
(* kind ("obj", "arr", "prim", "null"), p the text of a primitive, c the   *)
(* list of the members of an object or array, each with its key (arrays    *)
(* have no named keys) and its value.                                      *)
(***************************************************************************)
Prim(text) == [k |-> "prim", p |-> text, c |-> <<>>]
JsonNull == [k |-> "null", p |-> "", c |-> <<>>]
Member(key, val) == [key |-> key, val |-> val]
Obj(members) == [k |-> "obj", p |-> "", c |-> members]
Arr(items) == [k |-> "arr", p |-> "",
               c |-> [i \in 1..Len(items) |-> Member("", items[i])]]

\* const sensitiveKeys = [...]
sensitiveKeys == {"api_keys", "private_keys", "tokens", "secret_keys", "api_key",
                  "private_key", "password", "secret", "access_token",
                  "refresh_token", "signature"}

\* removeSensitiveKeys without the recursion into nested objects.
removeSensitiveKeysAtTop(obj) ==
    IF obj.k \notin {"obj", "arr"} THEN obj
    ELSE [obj EXCEPT !.c = SelectSeq(obj.c, LAMBDA m : m.key \notin sensitiveKeys)]

\* const removeSensitiveKeys = (obj) => { ... }: delete obj[key] for every
\* sensitive key, then the same for every member that is an object (arrays
\* included; null is skipped).  The object is changed in place.
RECURSIVE removeSensitiveKeys(_)
removeSensitiveKeys(obj) ==
    IF obj.k \notin {"obj", "arr"} THEN obj
    ELSE LET kept == SelectSeq(obj.c, LAMBDA m : m.key \notin sensitiveKeys)
         IN  [obj EXCEPT !.c = [i \in 1..Len(kept) |->
                                   Member(kept[i].key, removeSensitiveKeys(kept[i].val))]]

\* sanitizeData(data): if (!data || typeof data !== 'object') return
sanitizeData(data) ==
    IF data.k \in {"obj", "arr"} THEN removeSensitiveKeys(data) ELSE data

\* delete info?.api_keys; delete info?.private_keys; delete info?.tokens, and
\* the rest pattern { api_keys, private_keys, tokens, ...safeStation }
WithoutKeys(obj) ==
    [obj EXCEPT !.c = SelectSeq(obj.c, LAMBDA m : m.key \notin
                                          {"api_keys", "private_keys", "tokens"})]

\* What response.json() of the telemetry API can yield.
Documents ==
    {Prim("ok"),
     JsonNull,
     Obj(<<Member("name", Prim("a"))>>),
     Obj(<<Member("name", Prim("a")), Member("api_key", Prim("k"))>>),
     Obj(<<Member("station", Obj(<<Member("name", Prim("a")),
                                   Member("password", Prim("p"))>>)),
           Member("tokens", JsonNull)>>),
     Arr(<<Obj(<<Member("api_keys", Prim("k")), Member("name", Prim("a"))>>),
           Obj(<<Member("name", Prim("b")),
                 Member("owner", Obj(<<Member("secret", Prim("s"))>>))>>)>>),
     Arr(<<>>),
     Obj(<<Member("list", Arr(<<Obj(<<Member("tokens", Obj(<<Member("x", Prim("t"))>>)),
                                      Member("id", Prim("1"))>>),
                                Prim("s")>>))>>),
     Obj(<<Member("private_keys", Obj(<<Member("name", Prim("a"))>>))>>),
     Obj(<<Member("a", Obj(<<Member("b", Arr(<<Obj(<<Member("signature", Prim("sig")),
                                                     Member("keep", Prim("v"))>>)>>))>>))>>)}

(***************************************************************************)
(* FieldClimateAPI.sanitizeError.  A text is the list of its tokens: the   *)
(* words "publicKey=", "privateKey=", "signature=" and "hmac", the blank,  *)
(* the ampersand, the colon, the value of the public key ("PUB"), the      *)
(* value of the private key ("PRIV") and any other word ("w").             *)
(***************************************************************************)
\* The tokens of a text, before and after redaction.
Tokens == {"publicKey=", "privateKey=", "signature=", "hmac", " ", "&", ":",
           "PUB", "PRIV", "w", "[REDACTED]"}
\* \S and [^&\s]
NonBlank == Tokens \ {" "}
ValueTokens == Tokens \ {" ", "&"}

\* Where the run of tokens of the set within that begins at position i ends
\* (i - 1 if there is none).
RECURSIVE RunEnd(_, _, _)
RunEnd(text, i, within) ==
    IF i > Len(text) \/ text[i] \notin within THEN i - 1
    ELSE RunEnd(text, i + 1, within)

\* text.replace(/name[^&\s]+/g, 'name[REDACTED]') for a word name that ends
\* with the equals sign
RECURSIVE RedactParameter(_, _)
RedactParameter(text, name) ==
    IF text = <<>> THEN <<>>
    ELSE LET end == RunEnd(text, 2, ValueTokens)
         IN  IF Head(text) = name /\ end >= 2
             THEN <<name, "[REDACTED]">>
                      \o RedactParameter(SubSeq(text, end + 1, Len(text)), name)
             ELSE <<Head(text)>> \o RedactParameter(Tail(text), name)

\* text.replace(/hmac\s+\S+:\S+/g, 'hmac [REDACTED]'): the word hmac, blanks,
\* and a run without blanks that has a colon between its first and its last
\* token
RECURSIVE RedactHmac(_)
RedactHmac(text) ==
    IF text = <<>> THEN <<>>
    ELSE LET blanks == RunEnd(text, 2, {" "})
             end == RunEnd(text, blanks + 1, NonBlank)
         IN  IF /\ Head(text) = "hmac"
                /\ blanks >= 2
                /\ \E j \in (blanks + 2)..(end - 1) : text[j] = ":"
             THEN <<"hmac", " ", "[REDACTED]">>
                      \o RedactHmac(SubSeq(text, end + 1, Len(text)))
             ELSE <<Head(text)>> \o RedactHmac(Tail(text))

\* text.replace(key, '[REDACTED]') with a string as the pattern: only the
\* first occurrence is replaced.
ReplaceFirst(text, key) ==
    IF \E i \in 1..Len(text) : text[i] = key
    THEN LET first == CHOOSE i \in 1..Len(text) :
                         text[i] = key /\ \A j \in 1..(i - 1) : text[j] # key
         IN  [text EXCEPT ![first] = "[REDACTED]"]
    ELSE text

\* sanitizeError(errorText, publicKey, privateKey)
sanitizeError(errorText, publicKey, privateKey) ==
    ReplaceFirst(
        ReplaceFirst(
            RedactHmac(
                RedactParameter(
                    RedactParameter(
                        RedactParameter(errorText, "publicKey="),
                        "privateKey="),
                    "signature=")),
            publicKey),
        privateKey)

(***************************************************************************)
(* The handlers as gateways to the telemetry API: what each invocation     *)
(* answers and what it sends upstream.  Four handlers are modelled: the    *)
(* action handler at the head of src/api/fieldclimate.js, which checks the *)
(* keys inside each case of its switch ("fieldclimate-switch"); the one at *)
(* the end of that file ("fieldclimate"); the action handler of            *)
(* src/unnamed/part_000 ("part_000"); and the endpoint proxy of            *)
(* src/unnamed/part_000 ("proxy").                                         *)
(***************************************************************************)
ActionHandlers == {"fieldclimate-switch", "fieldclimate", "part_000"}
Handlers == ActionHandlers \cup {"proxy"}

\* The actions that a body can name; the last one is unknown to every handler.
Actions == {"testConnection", "getUserInfo", "getStations", "getStationInfo",
            "getStationLastData", "calculateET0", "getHistoricalET0", "desconhecida"}

\* req.query.endpoint: undefined, a string (the list of its path tokens), or
\* the array that a repeated query parameter yields.
Endpoint(kind, parts) == [kind |-> kind, parts |-> parts]
NoEndpoint == Endpoint("undefined", <<>>)
Endpoints == {NoEndpoint,
              Endpoint("string", <<>>),
              Endpoint("string", <<"/", "station">>),
              Endpoint("string", <<"station">>),
              Endpoint("string", <<"/", "..", "/", "user">>),
              Endpoint("array", <<"/", "station">>)}

\* A request: its HTTP method, its body (none, the empty object, an object
\* with members), the keys in the environment of the server, and the members
\* of the body or of the query string that the handler reads.
GatewayRequests(handler) ==
    IF handler = "proxy"
    THEN [method : {"OPTIONS", "GET", "POST", "DELETE"},
          body : {"none", "{}", "{...}"},
          publicKey : {"undefined", "PUB"}, privateKey : {"undefined", "PRIV"},
          action : {""}, stationId : {""}, dates : {FALSE}, endpoint : Endpoints]
    ELSE [method : {"OPTIONS", "GET", "POST"},
          body : {"none", "{...}"},
          publicKey : {"undefined", "PUB"}, privateKey : {"undefined", "PRIV"},
          action : Actions, stationId : {"", "031133E8"}, dates : BOOLEAN,
          endpoint : {NoEndpoint}]

\* The request options that fetch receives, and the content that was signed:
\* method + endpoint + timestamp + publicKey, then the JSON text if signJson;
\* options.body is the JSON text if sendJson.
Signed(method, endpoint, json, signJson, sendJson, publicKey, privateKey) ==
    [target |-> "fieldclimate", method |-> method, endpoint |-> endpoint,
     contentToSign |-> <<method>> \o endpoint \o <<"timestamp", publicKey>>
                          \o (IF signJson THEN <<json>> ELSE <<>>),
     signedWith |-> privateKey,
     authorization |-> publicKey,
     body |-> IF sendJson THEN <<json>> ELSE <<>>]

\* FieldClimateAPI.request(method, endpoint, data, publicKey, privateKey) up
\* to its fetch: data is "null" or the JSON text of an object.
request(method, endpoint, data, publicKey, privateKey) ==
    Signed(method, endpoint, data,
           data # "null" /\ method # "GET",
           data # "null" /\ method # "GET",
           publicKey, privateKey)

\* The signed request of the endpoint proxy: the body is signed
\* if (req.body && Object.keys(req.body).length > 0 && method !== 'GET') and
\* sent if (req.body && method !== 'GET').
ProxyRequest(r) ==
    Signed(r.method, r.endpoint.parts, r.body,
           r.body = "{...}" /\ r.method # "GET",
           r.body # "none" /\ r.method # "GET",
           r.publicKey, r.privateKey)

\* fetch(gistUrl): no signature, no keys.
GistRequest ==
    [target |-> "gist", method |-> "GET", endpoint |-> <<"031133E8_station_data.xml">>,
     contentToSign |-> <<>>, signedWith |-> "", authorization |-> "", body |-> <<>>]

\* The request that the helper of an action sends.
HelperRequest(r) ==
    IF r.action = "getHistoricalET0" THEN GistRequest
    ELSE request("GET",
                 CASE r.action \in {"testConnection", "getStations"} -> <<"/user/stations">>
                   [] r.action = "getUserInfo" -> <<"/user">>
                   [] r.action = "getStationInfo" -> <<"/station/", r.stationId>>
                   [] OTHER -> <<"/data/", r.stationId, "/data/", "from", "/", "to">>,
                 "null", r.publicKey, r.privateKey)

\* Responses.  message is the list of the tokens of the text.
Response(status, json, success, error, message, data) ==
    [status |-> status, json |-> json, success |-> success, error |-> error,
     message |-> message, data |-> data]
\* res.status(200).end()
Preflight == Response(200, FALSE, "", "", <<>>, JsonNull)
\* res.status(500).json({ success: false, message: '...' }) of the key check
KeysNotConfigured ==
    Response(500, TRUE, "false", "",
             <<"Chaves da API nao configuradas no servidor.">>, JsonNull)
\* The key check of the endpoint proxy.
CredentialsNotConfigured ==
    Response(500, TRUE, "", "Configuracao incompleta",
             <<"As credenciais da API nao foram configuradas.">>, JsonNull)
\* The catch block of an action handler.
Failure(message) == Response(500, TRUE, "false", "", message, JsonNull)
\* res.status(code).json({ error }) of the endpoint proxy
ProxyError(status, error) == Response(status, TRUE, "", error, <<>>, JsonNull)

\* What a handler does before it awaits anything: it replies, it sends a
\* request upstream and awaits the answer, or it rejects without a reply.
Replies(response) == [do |-> "reply", response |-> response, call |-> GistRequest]
Awaits(upstreamRequest) == [do |-> "await", response |-> Preflight,
                            call |-> upstreamRequest]
Rejects == [do |-> "reject", response |-> Preflight, call |-> GistRequest]

\* !publicKey || !privateKey
KeysMissing(r) == r.publicKey = "undefined" \/ r.privateKey = "undefined"

\* The key check inside a case of the switch of the first handler of
\* src/api/fieldclimate.js; the other handlers have checked before the switch.
CheckedCall(r) ==
    IF impl = "fieldclimate-switch" /\ KeysMissing(r) THEN Replies(KeysNotConfigured)
    ELSE Awaits(HelperRequest(r))

\* switch (action) { ... } up to the first await
Switch(r) ==
    CASE r.action \in {"testConnection", "getUserInfo", "getStations"} ->
            CheckedCall(r)
      [] r.action \in {"getStationInfo", "getStationLastData", "calculateET0"} ->
            IF r.stationId = "" THEN Replies(Failure(<<"stationId e obrigatorio">>))
            ELSE CheckedCall(r)
      [] r.action = "getHistoricalET0" /\ impl # "fieldclimate" ->
            IF ~r.dates
            THEN Replies(Failure(<<"startDate e endDate sao obrigatorios">>))
            ELSE IF impl = "fieldclimate-switch"
            \* no getHistoricalET0FromGist in src/api/fieldclimate.js
            THEN Replies(Failure(<<"getHistoricalET0FromGist is not defined">>))
            ELSE Awaits(GistRequest)
      [] OTHER -> Replies(Failure(<<"Acao nao suportada: ", r.action>>))

\* An action handler up to its first await.
ActionHandler(r) ==
    IF r.method = "OPTIONS" THEN Replies(Preflight)
    ELSE IF r.body = "none"
    \* const { action, ... } = req.body: a TypeError inside the try
    THEN Replies(Failure(<<"Cannot destructure property 'action' of 'req.body'">>))
    ELSE IF impl # "fieldclimate-switch" /\ NeedsApiKeys(r.action) /\ KeysMissing(r)
    THEN Replies(KeysNotConfigured)
    ELSE Switch(r)

\* endpoint.startsWith('/') and endpoint.includes('..')
StartsWithSlash(parts) == parts # <<>> /\ parts[1] = "/"
IncludesDotDot(parts) == \E i \in 1..Len(parts) : parts[i] = ".."

\* The endpoint proxy up to its fetch.  An array has no startsWith: the
\* TypeError is raised outside the try block.
ProxyHandler(r) ==
    IF KeysMissing(r) THEN Replies(CredentialsNotConfigured)
    ELSE IF r.method = "OPTIONS" THEN Replies(Preflight)
    ELSE IF r.method \notin {"GET", "POST"}
    THEN Replies(ProxyError(405, "Metodo nao permitido"))
    ELSE IF r.endpoint.kind = "undefined"
            \/ (r.endpoint.kind = "string" /\ r.endpoint.parts = <<>>)
    THEN Replies(ProxyError(400, "Endpoint nao especificado"))
    ELSE IF r.endpoint.kind = "array" THEN Rejects
    ELSE IF ~StartsWithSlash(r.endpoint.parts) \/ IncludesDotDot(r.endpoint.parts)
    THEN Replies(ProxyError(400, "Endpoint invalido"))
    ELSE Awaits(ProxyRequest(r))

\* What the telemetry API (or the Gist) answers: a JSON document, a status
\* that is not ok with an error text, or no answer at all.
ErrorTexts ==
    {<<"w">>,
     <<"w", " ", "publicKey=", "PUB", "&", "privateKey=", "PRIV">>,
     <<"hmac", " ", "PUB", ":", "w">>,
     <<"signature=", "w", " ", "PUB">>,
     <<"PUB", " ", "PUB">>,
     <<"w", " ", "PRIV", "&", "PRIV">>,
     <<"hmac", " ", "PUB", ":", "w", " ", "PUB", " ", "PRIV">>}
UpstreamAnswers ==
    {[kind |-> "ok", status |-> 200, document |-> d, errorText |-> <<>>] :
         d \in Documents}
    \cup {[kind |-> "not ok", status |-> 401, document |-> JsonNull, errorText |-> t] :
              t \in ErrorTexts}
    \cup {[kind |-> "no answer", status |-> 0, document |-> JsonNull, errorText |-> <<>>]}

\* throw new Error(message)
Threw(message) == [threw |-> TRUE, val |-> message]

\* FieldClimateAPI.request from its fetch on: the parsed document, or
\* throw new Error(`HTTP ${response.status}: ${this.sanitizeError(...)}`), or
\* the error of fetch thrown again.
RequestOutcome(answer, publicKey, privateKey) ==
    CASE answer.kind = "ok" -> Ret(answer.document)
      [] answer.kind = "not ok" ->
            Threw(<<"HTTP ", "401", ": ">>
                     \o sanitizeError(answer.errorText, publicKey, privateKey))
      [] OTHER -> Threw(<<"fetch failed">>)

\* res.status(200).json(result)
Result(success, message, data) == Response(200, TRUE, success, "", message, data)

\* The helper of an action after request() has settled, and the response of
\* the handler: testConnection and getUserInfo catch every error; the other
\* helpers let it pass to the catch block of the handler.  calculateET0
\* always resolves (its computation is the subject of RouteSpec).
HelperResponse(r, o) ==
    CASE r.action = "testConnection" ->
            IF o.threw
            THEN Result("false", <<"Falha na conexao. Verifique suas credenciais.">>,
                        JsonNull)
            ELSE Result("true", <<"Conexao estabelecida com sucesso">>,
                        Prim(IF o.val.k = "arr" THEN ToString(Len(o.val.c)) ELSE "1"))
      [] r.action = "getUserInfo" ->
            \* userInfo.stations_count of null is a TypeError, caught
            IF o.threw \/ o.val.k = "null"
            THEN Result("false",
                        <<"Nao foi possivel verificar informacoes do usuario">>, JsonNull)
            ELSE Result("true", <<"Usuario autenticado com sucesso">>,
                        IF \E i \in 1..Len(o.val.c) :
                               o.val.k = "obj" /\ o.val.c[i].key = "stations_count"
                        THEN (CHOOSE m \in {o.val.c[i] : i \in 1..Len(o.val.c)} :
                                 m.key = "stations_count").val
                        ELSE Prim("0"))
      [] r.action = "getStations" ->
            IF o.threw THEN Failure(o.val)
            ELSE IF o.val.k # "arr"
            THEN Failure(<<"stations.map is not a function">>)
            ELSE IF \E i \in 1..Len(o.val.c) : o.val.c[i].val.k = "null"
            THEN Failure(<<"Cannot destructure 'station' as it is null.">>)
            ELSE Result("", <<>>,
                        [o.val EXCEPT !.c = [i \in 1..Len(o.val.c) |->
                             Member("", [WithoutKeys(o.val.c[i].val)
                                             EXCEPT !.k = "obj"])]])
      [] r.action = "getStationInfo" ->
            IF o.threw THEN Failure(o.val) ELSE Result("", <<>>, WithoutKeys(o.val))
      [] r.action = "getStationLastData" ->
            IF o.threw THEN Failure(o.val) ELSE Result("", <<>>, o.val)
      [] OTHER -> Result("true", <<>>, Prim("ET0"))

\* getHistoricalET0FromGist: every error is caught and reported in the body.
GistResponse(answer) ==
    IF answer.kind = "ok" THEN Result("true", <<>>, Prim("ET0 historico"))
    ELSE Result("false", <<"Erro ao processar dados historicos">>, JsonNull)

\* The endpoint proxy after its fetch.
ProxyResponse(answer) ==
    CASE answer.kind = "ok" ->
            Response(200, TRUE, "", "", <<>>, sanitizeData(answer.document))
      [] answer.kind = "not ok" ->
            Response(500, TRUE, "", "Erro ao buscar dados da estacao", <<>>, JsonNull)
      [] OTHER ->
            Response(500, TRUE, "", "Erro interno do servidor", <<"fetch failed">>,
                     JsonNull)

GatewayInit ==
    /\ impl \in Handlers
    /\ pc = "idle"
    /\ today \in {15}
    /\ params = AllAbsent
    /\ stationInfo = MissingStation
    /\ stationId = ""
    /\ loc = InitialLocals
    /\ result = NoResult
    /\ last = NoResult
    /\ req = NoRequest
    /\ stationData = NoData
    /\ outcome = Pending
    /\ res = NoResponse
    /\ sent = 0
    /\ upstream = <<>>
    /\ ret = NoCall

\* A request arrives and the handler is invoked.
Receive ==
    /\ pc \in {"idle", "closed", "rejected"}
    /\ req' \in GatewayRequests(impl)
    /\ sent' = 0
    /\ upstream' = <<>>
    /\ res' = NoResponse
    /\ outcome' = Pending
    /\ ret' = NoCall
    /\ pc' = "handler"
    /\ UNCHANGED <<impl, params, stationInfo, stationId, today, loc, result, last,
                   stationData>>

\* handler(req, res) up to its first await, or to its end
Handle ==
    /\ pc = "handler"
    /\ LET step == IF impl = "proxy" THEN ProxyHandler(req) ELSE ActionHandler(req)
       IN  CASE step.do = "reply" ->
                   /\ res' = step.response
                   /\ sent' = sent + 1
                   /\ pc' = "closed"
                   /\ UNCHANGED upstream
             [] step.do = "await" ->
                   /\ upstream' = Append(upstream, step.call)
                   /\ pc' = "awaiting"
                   /\ UNCHANGED <<res, sent>>
             [] OTHER ->
                   /\ pc' = "rejected"
                   /\ UNCHANGED <<res, sent, upstream>>
    /\ UNCHANGED <<impl, params, stationInfo, stationId, today, loc, result, last,
                   req, stationData, outcome, ret>>

\* The answer to the request arrives; the handler runs to its end.
Answered ==
    /\ pc = "awaiting"
    /\ \E answer \in UpstreamAnswers :
          /\ outcome' = answer
          /\ ret' = IF impl # "proxy" /\ req.action # "getHistoricalET0"
                    THEN RequestOutcome(answer, req.publicKey, req.privateKey)
                    ELSE NoCall
          /\ res' = IF impl = "proxy" THEN ProxyResponse(answer)
                    ELSE IF req.action = "getHistoricalET0" THEN GistResponse(answer)
                    ELSE HelperResponse(req, ret')
    /\ sent' = sent + 1
    /\ pc' = "closed"
    /\ UNCHANGED <<impl, params, stationInfo, stationId, today, loc, result, last,
                   req, stationData, upstream>>

GatewayNext == Receive \/ Handle \/ Answered

GatewaySpec == GatewayInit /\ [][GatewayNext]_vars

\* An object of the document, at any depth, has a key of the sensitive list.
RECURSIVE HasSensitiveKey(_)
HasSensitiveKey(doc) ==
    \E i \in 1..Len(doc.c) :
        doc.c[i].key \in sensitiveKeys \/ HasSensitiveKey(doc.c[i].val)

\* Every value of a document with the path of keys and array positions that
\* leads to it.
RECURSIVE ValuesOf(_, _)
ValuesOf(doc, path) ==
    {<<path, doc.k, doc.p>>}
    \cup UNION {ValuesOf(doc.c[i].val,
                         Append(path, IF doc.k = "arr" THEN ToString(i)
                                      ELSE doc.c[i].key)) : i \in 1..Len(doc.c)}

\* The values that no sensitive key leads to.
NonSensitiveValues(doc) ==
    {v \in ValuesOf(doc, <<>>) : \A i \in 1..Len(v[1]) : v[1][i] \notin sensitiveKeys}

\* The endpoint proxy has answered with the sanitized document of the API.
ProxyDelivered == impl = "proxy" /\ pc = "closed" /\ res.status = 200 /\ res.json

\* C23: after sanitizeData has run on a response, no object at any depth of
\* it (objects inside arrays included) has a key of the sensitive-key list,
\* and every other key and value is as it was.
C23_SanitizedResponseKeepsNoSensitiveKey ==
    ProxyDelivered =>
        /\ ~HasSensitiveKey(res.data)
        /\ ValuesOf(res.data, <<>>) = NonSensitiveValues(outcome.document)

\* A document with a sensitive key below its top level has been sanitized.
C23_Witness ==
    /\ ProxyDelivered
    /\ \E i \in 1..Len(outcome.document.c) :
          /\ outcome.document.c[i].key \notin sensitiveKeys
          /\ HasSensitiveKey(outcome.document.c[i].val)
    /\ res.data # outcome.document

\* The handler of the request as it runs when both keys are configured.
WithKeys(r) == [r EXCEPT !.publicKey = "PUB", !.privateKey = "PRIV"]
\* The request names an action (or an endpoint) that reaches the telemetry
\* API: with both keys configured the handler sends a signed request.
ReachesTelemetryAPI(r) ==
    LET step == IF impl = "proxy" THEN ProxyHandler(WithKeys(r))
                ELSE ActionHandler(WithKeys(r))
    IN  step.do = "await" /\ step.call.target = "fieldclimate"

\* C25: no signed request is sent to the telemetry API while the public key
\* or the private key is unset: for every action that reaches the API, a
\* missing key makes the handler answer 500 with the keys-not-configured
\* message before any request is issued upstream.
C25_NoSignedRequestWithoutKeys ==
    /\ \A i \in 1..Len(upstream) :
          upstream[i].target = "fieldclimate" => ~KeysMissing(req)
    /\ (pc \in {"awaiting", "closed", "rejected"} /\ KeysMissing(req)
            /\ ReachesTelemetryAPI(req))
          => /\ pc = "closed"
             /\ upstream = <<>>
             /\ sent = 1
             /\ res \in {KeysNotConfigured, CredentialsNotConfigured}

\* The handler of src/unnamed/part_000 has refused calculateET0 for want of a
\* key.
C25_Witness ==
    /\ impl = "part_000"
    /\ pc = "closed"
    /\ req.action = "calculateET0"
    /\ req.stationId # ""
    /\ KeysMissing(req)
    /\ res = KeysNotConfigured
    /\ upstream = <<>>

\* The endpoint of the query string is given, begins with '/' and contains
\* no '..'.
ValidEndpoint(endpoint) ==
    /\ endpoint.kind = "string"
    /\ StartsWithSlash(endpoint.parts)
    /\ ~IncludesDotDot(endpoint.parts)

\* The invocation of the handler is over.
Finished == pc \in {"closed", "rejected"}

\* C26: the endpoint proxy issues an upstream fetch only for a GET or POST
\* request whose endpoint is given, begins with '/' and contains no '..'; an
\* OPTIONS request gets 200, any other method 405, and a missing or invalid
\* endpoint 400, each without any upstream fetch.
C26_ProxyFetchesOnlyValidRequests ==
    impl = "proxy" =>
        /\ upstream # <<>> =>
              req.method \in {"GET", "POST"} /\ ValidEndpoint(req.endpoint)
        /\ (Finished /\ req.method = "OPTIONS") =>
              sent = 1 /\ res.status = 200 /\ upstream = <<>>
        /\ (Finished /\ req.method \notin {"OPTIONS", "GET", "POST"}) =>
              sent = 1 /\ res.status = 405 /\ upstream = <<>>
        /\ (Finished /\ req.method \in {"GET", "POST"}
                /\ ~ValidEndpoint(req.endpoint)) =>
              sent = 1 /\ res.status = 400 /\ upstream = <<>>

\* C27: every invocation of an API route handler sends exactly one HTTP
\* response on every path (preflight, missing keys, missing stationId, unknown
\* action, upstream failure, success): never none and never two.
C27_ExactlyOneResponse ==
    /\ sent <= 1
    /\ Finished => sent = 1

\* The JSON text that follows method, endpoint, timestamp and public key in
\* the signed content of a request (none: the empty list).
SignedJson(u) ==
    SubSeq(u.contentToSign, Len(u.endpoint) + 4, Len(u.contentToSign))

\* C28: for every outbound signed request, the JSON body is part of the
\* HMAC-signed content if and only if that body is sent as the request body.
C28_BodySignedIffSent ==
    \A i \in 1..Len(upstream) :
        upstream[i].target = "fieldclimate" => SignedJson(upstream[i]) = upstream[i].body

\* The tokens of a text.
TokensOf(text) == {text[i] : i \in 1..Len(text)}

\* C29: for every upstream error text, the string that sanitizeError returns
\* contains neither the public key nor the private key, however many times
\* either key occurs in the text.
C29_SanitizedErrorHoldsNoKey ==
    (pc = "closed" /\ ret.threw /\ outcome.kind = "not ok")
        => TokensOf(ret.val) \cap {"PUB", "PRIV"} = {}

(***************************************************************************)
(* The three temperatures of the extracted parameters.                     *)
(***************************************************************************)
\* The temperatures that the extractor has returned for the time series.
Temperatures ==
    {params.temperatura_maxima, params.temperatura_minima, params.temperatura_media}

\* The extractor has returned the parameters of a time series of binary64
\* readings.
Extracted64 == pc \in {"extracted", "extracted again"}

\* C30: in every output of extractMeteorologicalParameters the maximum, the
\* minimum and the mean temperature are all absent or all present, and when
\* present minimum <= mean <= maximum (so that maximum - minimum, the range
\* under the square root of Hargreaves-Samani, is not negative).
C30_TemperaturesConsistent ==
    Extracted64 =>
        \/ Temperatures = {Null}
        \/ /\ Null \notin Temperatures
           /\ ~Float64Less(params.temperatura_media, params.temperatura_minima)
           /\ ~Float64Less(params.temperatura_maxima, params.temperatura_media)

==========================================================================
